---------------------------- MODULE Spec2Model ----------------------------
(***************************************************************************)
(* TrustIQ: the ledger programs (trust_registry, reputation_oracle,        *)
(* trust_badge) and the off-ledger pipeline (BlockchainEventProcessor,     *)
(* QueueService), as state machines translated from the sources.           *)
(*                                                                         *)
(* The repository holds two variants of module trustiq::trust_registry:    *)
(*   "sources"   blockchain/sui/contracts/sources/trust_registry.move      *)
(*               (users: vector<TrustProfile>, no version, no score check) *)
(*   "versioned" the module that follows the hook in                       *)
(*               frontend/src/hooks/useAccounts.ts, lines 59..282          *)
(*               (users: VecMap<address, TrustProfile>, version,           *)
(*               user_count, EInvalidScore)                                *)
(* A deployment publishes one of them: `variant` is chosen in Init and     *)
(* never changes.  A Move abort reverts the whole transaction, so an       *)
(* aborting call leaves the ledger state as it was and only its abort code *)
(* is observable (lastTx).                                                 *)
(***************************************************************************)
EXTENDS Integers, Sequences, FiniteSets, Bags, TLC

VARIABLES
    variant,      \* which trust_registry module is published
    registry,     \* the shared TrustRegistry object
    epoch,        \* tx_context::epoch(ctx), the ledger's logical time
    lastTx,       \* outcome of the last ledger transaction: entry function, abort code, events
    accepted,     \* history: per subject, the number of update_trust_score calls that committed
    oracle,       \* the shared ReputationOracle object
    everVerifier, \* history: the addresses that have been in oracle.verifiers
    badges,       \* the TrustBadge objects, in mint order, each with the address that holds it
    score_in,     \* the argument of the badge tier functions
    tier_out,     \* their results: [tier: get_badge_tier, level: getBadgeLevel]
    chain,        \* the events the package has emitted, in ledger order
    mirror,       \* per user, what updateUserTrustScore/updateAccountVerification last stored
    handled,      \* history: per event of chain, its deliveries, mirror updates, notifications
    wsService,    \* whether the processor was constructed with a WebSocketService
    lastStep,     \* history: the last step of the processor, with a replay's time range
    subscription, \* the subscribeEvent feed: whether it is connected, and the next event it hands over
    replaying,    \* a replayEvents call between its queryEvents and its loop: the page it holds
    poison,       \* the events whose handler throws whenever it is called
    trustScoreQueue,  \* Bull queue 'trust score calculation': waiting jobs and the active job
    blockchainQueue,  \* Bull queue 'blockchain operations': waiting jobs and the active job
    inflight,     \* bag of the suiService.updateTrustScore calls that have not resolved
    failedJobs,   \* the jobs of 'blockchain operations' that Bull moved to its failed set
    lastRecalc,   \* history: the last recalculation that went on to write to the ledger
    verificationQueue, \* Bull queue 'account verification': waiting, active and finished jobs
    linkedAccounts,    \* the linkedAccount rows: whether the row exists, its user, verified
    clients,      \* WebSocketService.clients: client id -> [ws, userId, sessionId]
    sockets       \* per connection: its readyState, the token of its request, its listeners

vars == <<variant, registry, epoch, lastTx, accepted, oracle, everVerifier, badges,
          score_in, tier_out, chain, mirror, handled, wsService, lastStep,
          subscription, replaying, poison,
          trustScoreQueue, blockchainQueue, inflight, failedJobs, lastRecalc,
          verificationQueue, linkedAccounts, clients, sockets>>

registryVars == <<variant, registry, accepted>>
oracleVars == <<oracle, everVerifier>>
tierVars == <<score_in, tier_out>>
ledgerVars == <<registryVars, epoch, lastTx, oracleVars, badges>>
feedVars == <<subscription, replaying, poison>>
processorVars == <<chain, mirror, handled, wsService, lastStep, feedVars>>
queueVars == <<trustScoreQueue, blockchainQueue, inflight, failedJobs, lastRecalc>>
wsVars == <<clients, sockets>>
verifyVars == <<verificationQueue, linkedAccounts>>
offLedgerVars == <<processorVars, queueVars, wsVars, verifyVars>>

---------------------------------------------------------------------------
(* Bounds of the model *)

MaxVersion == 3
MaxVerifiers == 2
MaxAccounts == 1
MaxEpoch == 2
MaxObs == 4
MaxBadges == 2
MaxTierScore == 110

---------------------------------------------------------------------------
(* Addresses and inputs *)

ADMIN == "admin"
Subjects == {"s1", "s2"}
RegSenders == {"admin", "v1", "s1"}
RegVerifierArgs == {"v1"}
DIDs == {"did:a", "did:b"}
CreateCIDs == {"cid0"}
UpdateCIDs == {"cid1"}
RegScores == {0, 100, 101}
Providers == {"github"}
Usernames == {"alice"}

OracleSenders == {"admin", "v1", "v2"}
OracleVerifierArgs == {"v1", "v2"}
OracleScores == {40, 60, 80}
Timestamps == {0}
Signatures == {<<7>>}
BadgeTypes == {"Bronze", "Silver", "Gold", "Platinum", "Diamond"}

NoTx == [fn |-> "none", abort |-> "none", events |-> <<>>]

\* a transaction that committed: new state and the events it emitted
Commit(st, evs) == [abort |-> "OK", st |-> st, events |-> evs]
\* assert!(cond, code) failed, or `abort code`: everything is reverted
Abort(code, st) == [abort |-> code, st |-> st, events |-> <<>>]

---------------------------------------------------------------------------
(* trust_registry: shared scans *)

\* the `while (index < vector::length(&registry.verifiers))` scan of is_verifier
RECURSIVE ScanVerifiers(_, _, _)
ScanVerifiers(verifiers, addr, index) ==
    IF index > Len(verifiers) THEN FALSE
    ELSE IF verifiers[index] = addr THEN TRUE
    ELSE ScanVerifiers(verifiers, addr, index + 1)

is_verifier(reg, addr) == ScanVerifiers(reg.verifiers, addr, 1)

\* the owner scan of the "sources" variant: index of the first profile owned by
\* user, 0 when the loop runs off the end of registry.users
RECURSIVE ScanUsers(_, _, _)
ScanUsers(users, user, index) ==
    IF index > Len(users) THEN 0
    ELSE IF users[index].owner = user THEN index
    ELSE ScanUsers(users, user, index + 1)

\* vec_map::get_idx_opt of the "versioned" variant: index of the entry with this key
RECURSIVE ScanKeys(_, _, _)
ScanKeys(users, user, index) ==
    IF index > Len(users) THEN 0
    ELSE IF users[index].key = user THEN index
    ELSE ScanKeys(users, user, index + 1)

vec_map_contains(users, user) == ScanKeys(users, user, 1) # 0

---------------------------------------------------------------------------
(* trust_registry, variant "versioned" *)

init_versioned ==
    [users |-> <<>>, verifiers |-> <<>>, admin |-> ADMIN, user_count |-> 0]

create_trust_profile_overwrite(reg, sender, user, did, metadata_cid, now) ==
    LET profile == [owner |-> user, did |-> did, trust_score |-> 50,
                    verified_accounts |-> <<>>, metadata_cid |-> metadata_cid,
                    created_at |-> now, updated_at |-> now, version |-> 1]
        i == ScanKeys(reg.users, user, 1)
    IN  IF sender # reg.admin THEN Abort("ENotAdmin", reg)
        ELSE IF i # 0
            THEN Commit([reg EXCEPT !.users[i].value = profile],
                        <<[type |-> "TrustProfileCreated", user |-> user, did |-> did,
                           trust_score |-> 50, timestamp |-> now]>>)
        ELSE Commit([reg EXCEPT !.users = Append(@, [key |-> user, value |-> profile]),
                                !.user_count = @ + 1],
                    <<[type |-> "TrustProfileCreated", user |-> user, did |-> did,
                       trust_score |-> 50, timestamp |-> now]>>)

create_trust_profile(reg, sender, user, did, metadata_cid, now) ==
    LET profile == [owner |-> user, did |-> did, trust_score |-> 50,
                    verified_accounts |-> <<>>, metadata_cid |-> metadata_cid,
                    created_at |-> now, updated_at |-> now, version |-> 1]
    IN  IF sender # reg.admin THEN Abort("ENotAdmin", reg)
        ELSE IF vec_map_contains(reg.users, user) THEN Abort("EUserAlreadyExists", reg)
        ELSE Commit([reg EXCEPT !.users = Append(@, [key |-> user, value |-> profile]),
                                !.user_count = @ + 1],
                    <<[type |-> "TrustProfileCreated", user |-> user, did |-> did,
                       trust_score |-> 50, timestamp |-> now]>>)

update_trust_score(reg, sender, user, new_score, metadata_cid, now) ==
    LET i == ScanKeys(reg.users, user, 1)
    IN  IF ~is_verifier(reg, sender) THEN Abort("ENotVerifier", reg)
        ELSE IF ~(new_score <= 100) THEN Abort("EInvalidScore", reg)
        ELSE IF i = 0 THEN Abort("EUserNotFound", reg)
        ELSE Commit([reg EXCEPT !.users[i].value.trust_score = new_score,
                                !.users[i].value.metadata_cid = metadata_cid,
                                !.users[i].value.updated_at = now,
                                !.users[i].value.version = @ + 1],
                    <<[type |-> "TrustScoreUpdated", user |-> user,
                       old_score |-> reg.users[i].value.trust_score,
                       new_score |-> new_score, metadata_cid |-> metadata_cid,
                       timestamp |-> now]>>)

add_verified_account(reg, sender, user, acct, now) ==
    LET i == ScanKeys(reg.users, user, 1)
        verified_account == [provider |-> acct.provider, username |-> acct.username,
                             verified_at |-> now, proof_hash |-> acct.proof_hash,
                             account_id |-> acct.account_id]
    IN  IF ~is_verifier(reg, sender) THEN Abort("ENotVerifier", reg)
        ELSE IF i = 0 THEN Abort("EUserNotFound", reg)
        ELSE Commit([reg EXCEPT !.users[i].value.verified_accounts =
                                    Append(@, verified_account),
                                !.users[i].value.updated_at = now,
                                !.users[i].value.version = @ + 1],
                    <<[type |-> "AccountVerified", user |-> user,
                       provider |-> acct.provider, username |-> acct.username,
                       timestamp |-> now]>>)

\* register_verifier with the admin assertion left out
register_verifier_open(reg, sender, verifier, now) ==
    Commit([reg EXCEPT !.verifiers = Append(@, verifier)],
           <<[type |-> "VerifierRegistered", verifier |-> verifier,
              timestamp |-> now]>>)

register_verifier(reg, sender, verifier, now) ==
    IF sender # reg.admin THEN Abort("ENotAdmin", reg)
    ELSE Commit([reg EXCEPT !.verifiers = Append(@, verifier)],
                <<[type |-> "VerifierRegistered", verifier |-> verifier,
                   timestamp |-> now]>>)

---------------------------------------------------------------------------
(* trust_registry, variant "sources" *)

init_sources == [users |-> <<>>, verifiers |-> <<>>, admin |-> ADMIN]

create_trust_profile_src(reg, sender, user, did, metadata_cid, now) ==
    LET user_exists == ScanUsers(reg.users, user, 1) # 0
        profile == [owner |-> user, did |-> did, trust_score |-> 50,
                    verified_accounts |-> <<>>, metadata_cid |-> metadata_cid,
                    created_at |-> now, updated_at |-> now]
    IN  IF sender # reg.admin THEN Abort("ENotAdmin", reg)
        ELSE IF user_exists THEN Abort("EUserAlreadyExists", reg)
        ELSE Commit([reg EXCEPT !.users = Append(@, profile)],
                    <<[type |-> "TrustProfileCreated", user |-> user, did |-> did,
                       trust_score |-> 50]>>)

\* the verifier check aborts with ENotAdmin (line 118); there is no score check
update_trust_score_src(reg, sender, user, new_score, metadata_cid, now) ==
    LET i == ScanUsers(reg.users, user, 1)
    IN  IF ~is_verifier(reg, sender) THEN Abort("ENotAdmin", reg)
        ELSE IF i = 0 THEN Abort("EUserNotFound", reg)
        ELSE Commit([reg EXCEPT !.users[i].trust_score = new_score,
                                !.users[i].metadata_cid = metadata_cid,
                                !.users[i].updated_at = now],
                    <<[type |-> "TrustScoreUpdated", user |-> user,
                       old_score |-> reg.users[i].trust_score,
                       new_score |-> new_score, metadata_cid |-> metadata_cid]>>)

\* no verifier check, no account_id, no event
add_verified_account_src(reg, sender, user, acct, now) ==
    LET i == ScanUsers(reg.users, user, 1)
        verified_account == [provider |-> acct.provider, username |-> acct.username,
                             verified_at |-> now, proof_hash |-> acct.proof_hash]
    IN  IF i = 0 THEN Abort("EUserNotFound", reg)
        ELSE Commit([reg EXCEPT !.users[i].verified_accounts = Append(@, verified_account),
                                !.users[i].updated_at = now],
                    <<>>)

register_verifier_src(reg, sender, verifier, now) ==
    IF sender # reg.admin THEN Abort("ENotAdmin", reg)
    ELSE Commit([reg EXCEPT !.verifiers = Append(@, verifier)], <<>>)

---------------------------------------------------------------------------
(* reputation_oracle *)

init_oracle ==
    [admin |-> ADMIN, verifiers |-> <<>>, min_verifications |-> 1,
     score_updates |-> EmptyBag]

oracle_is_verifier_any(orc, addr) == Len(orc.verifiers) > 0

oracle_is_verifier(orc, addr) == ScanVerifiers(orc.verifiers, addr, 1)

\* placeholder implementation: "For now, return true for testing"
verify_signature(user, score, timestamp, signature, verifier) == TRUE

\* returns without a change and without an event when verifier is already listed
add_verifier(orc, sender, verifier) ==
    IF sender # orc.admin THEN Abort("ENotAdmin", orc)
    ELSE IF ScanVerifiers(orc.verifiers, verifier, 1) THEN Commit(orc, <<>>)
    ELSE Commit([orc EXCEPT !.verifiers = Append(@, verifier)],
                <<[type |-> "OracleVerifierAdded", verifier |-> verifier,
                   added_by |-> sender]>>)

\* vector::remove(&mut v, index)
VectorRemove(v, index) == [i \in 1..(Len(v) - 1) |-> IF i < index THEN v[i] ELSE v[i + 1]]

RECURSIVE IndexOfAddr(_, _, _)
IndexOfAddr(v, addr, index) ==
    IF index > Len(v) THEN 0
    ELSE IF v[index] = addr THEN index
    ELSE IndexOfAddr(v, addr, index + 1)

\* remove_verifier that also drops the observations the verifier had submitted
remove_verifier_purging(orc, sender, verifier) ==
    LET index == IndexOfAddr(orc.verifiers, verifier, 1)
        kept == {e \in DOMAIN orc.score_updates : e.verifier # verifier}
    IN  IF sender # orc.admin THEN Abort("ENotAdmin", orc)
        ELSE IF index = 0 THEN Commit(orc, <<>>)
        ELSE Commit([orc EXCEPT !.verifiers = VectorRemove(@, index),
                                !.score_updates = [e \in kept |-> orc.score_updates[e]]],
                    <<[type |-> "OracleVerifierRemoved", verifier |-> verifier,
                       removed_by |-> sender]>>)

remove_verifier(orc, sender, verifier) ==
    LET index == IndexOfAddr(orc.verifiers, verifier, 1)
    IN  IF sender # orc.admin THEN Abort("ENotAdmin", orc)
        ELSE IF index = 0 THEN Commit(orc, <<>>)
        ELSE Commit([orc EXCEPT !.verifiers = VectorRemove(@, index)],
                    <<[type |-> "OracleVerifierRemoved", verifier |-> verifier,
                       removed_by |-> sender]>>)

submit_score_update(orc, sender, user, score, timestamp, signature, metadata_cid) ==
    LET verifier == sender
        update == [user |-> user, score |-> score, timestamp |-> timestamp,
                   signature |-> signature, verifier |-> verifier,
                   metadata_cid |-> metadata_cid]
    IN  IF ~oracle_is_verifier(orc, verifier) THEN Abort("ENotVerifier", orc)
        ELSE IF ~verify_signature(user, score, timestamp, signature, verifier)
            THEN Abort("EInvalidSignature", orc)
        ELSE Commit([orc EXCEPT !.score_updates = @ (+) SetToBag({update})],
                    <<[type |-> "ScoreUpdateSigned", user |-> user, score |-> score,
                       verifier |-> verifier, timestamp |-> timestamp]>>)

\* bag::values: the stored updates as a vector, each as often as it is stored
RECURSIVE BagValues(_)
BagValues(B) ==
    IF DOMAIN B = {} THEN <<>>
    ELSE LET e == CHOOSE x \in DOMAIN B : TRUE
             rest == [x \in (DOMAIN B) \ {e} |-> B[x]]
         IN  [i \in 1..B[e] |-> e] \o BagValues(rest)

\* the loop of get_consensus_score from index on: <<total_score, count>>
RECURSIVE ConsensusLoop(_, _, _, _, _)
ConsensusLoop(updates, user, index, total_score, count) ==
    IF index > Len(updates) THEN <<total_score, count>>
    ELSE IF updates[index].user = user
        THEN ConsensusLoop(updates, user, index + 1,
                           total_score + updates[index].score, count + 1)
    ELSE ConsensusLoop(updates, user, index + 1, total_score, count)

RECURSIVE SumScores(_, _)
SumScores(updates, index) ==
    IF index > Len(updates) THEN 0
    ELSE updates[index].score + SumScores(updates, index + 1)

get_consensus_score_all_users(orc, user) ==
    LET updates == BagValues(orc.score_updates)
    IN  IF Len(updates) > 0
        THEN <<SumScores(updates, 1) \div Len(updates), Len(updates)>>
        ELSE <<50, 0>>

\* u64 division truncates
get_consensus_score(orc, user) ==
    LET acc == ConsensusLoop(BagValues(orc.score_updates), user, 1, 0, 0)
    IN  IF acc[2] > 0 THEN <<acc[1] \div acc[2], acc[2]>> ELSE <<50, 0>>

---------------------------------------------------------------------------
(* trust_badge *)

ValidityPeriod == 31536000

NoTier == [tier |-> "none", level |-> "none"]

get_badge_tier_exclusive(score) ==
    IF score > 90 THEN "Diamond"
    ELSE IF score > 80 THEN "Platinum"
    ELSE IF score > 70 THEN "Gold"
    ELSE IF score > 60 THEN "Silver"
    ELSE "Bronze"

get_badge_tier(score) ==
    IF score >= 90 THEN "Diamond"
    ELSE IF score >= 80 THEN "Platinum"
    ELSE IF score >= 70 THEN "Gold"
    ELSE IF score >= 60 THEN "Silver"
    ELSE "Bronze"

\* OnChainBadge.tsx
getBadgeLevel(score) ==
    IF score >= 90 THEN "Diamond"
    ELSE IF score >= 80 THEN "Platinum"
    ELSE IF score >= 70 THEN "Gold"
    ELSE IF score >= 60 THEN "Silver"
    ELSE "Bronze"

\* badge_type is an argument: the function does not derive it from trust_score
mint_trust_badge(bs, owner, badge_type, trust_score, metadata_url, now) ==
    LET badge == [owner |-> owner, badge_type |-> badge_type,
                  trust_score |-> trust_score, metadata_url |-> metadata_url,
                  issued_at |-> now, expires_at |-> now + ValidityPeriod,
                  version |-> 1]
    IN  Commit(Append(bs, [holder |-> owner, badge |-> badge]),
               <<[type |-> "TrustBadgeMinted", owner |-> owner, badge_type |-> badge_type,
                  trust_score |-> trust_score, metadata_url |-> metadata_url]>>)

\* update_trust_badge without the version increment
update_trust_badge_same_version(bs, i, new_score, new_metadata_url, now) ==
    Commit([bs EXCEPT ![i].badge.trust_score = new_score,
                      ![i].badge.metadata_url = new_metadata_url,
                      ![i].badge.expires_at = now + ValidityPeriod],
           <<[type |-> "TrustBadgeUpdated", owner |-> bs[i].badge.owner,
              old_score |-> bs[i].badge.trust_score, new_score |-> new_score,
              metadata_url |-> new_metadata_url]>>)

update_trust_badge(bs, i, new_score, new_metadata_url, now) ==
    Commit([bs EXCEPT ![i].badge.trust_score = new_score,
                      ![i].badge.metadata_url = new_metadata_url,
                      ![i].badge.version = @ + 1,
                      ![i].badge.expires_at = now + ValidityPeriod],
           <<[type |-> "TrustBadgeUpdated", owner |-> bs[i].badge.owner,
              old_score |-> bs[i].badge.trust_score, new_score |-> new_score,
              metadata_url |-> new_metadata_url]>>)

\* is_expired with the boundary included
is_expired_at_boundary(badge, now) == badge.expires_at <= now

is_expired(badge, now) == badge.expires_at < now

---------------------------------------------------------------------------
(* trust_registry: views over either variant *)

\* the stored profiles, in storage order
Profiles ==
    IF variant = "versioned"
    THEN [i \in 1..Len(registry.users) |-> registry.users[i].value]
    ELSE registry.users

OwnedBy(user) == {i \in 1..Len(Profiles) : Profiles[i].owner = user}

\* has_profile / the owner scan
HasProfile(user) == OwnedBy(user) # {}

\* get_trust_profile: the first profile of user
ProfileOf(user) == Profiles[CHOOSE i \in OwnedBy(user) : \A j \in OwnedBy(user) : i <= j]

EventTypes(evs) == [i \in 1..Len(evs) |-> evs[i].type]

Tx(fn, r) == [fn |-> fn, abort |-> r.abort, events |-> EventTypes(r.events)]

---------------------------------------------------------------------------
(* trust_registry: one action per entry function *)

\* the outcome of each entry function of the published variant, called now
CallCreate(sender, user, did, metadata_cid) ==
    IF variant = "versioned"
    THEN create_trust_profile(registry, sender, user, did, metadata_cid, epoch)
    ELSE create_trust_profile_src(registry, sender, user, did, metadata_cid, epoch)

CallUpdate(sender, user, new_score, metadata_cid) ==
    IF variant = "versioned"
    THEN update_trust_score(registry, sender, user, new_score, metadata_cid, epoch)
    ELSE update_trust_score_src(registry, sender, user, new_score, metadata_cid, epoch)

CallAddAccount(sender, user, acct) ==
    IF variant = "versioned"
    THEN add_verified_account(registry, sender, user, acct, epoch)
    ELSE add_verified_account_src(registry, sender, user, acct, epoch)

CallRegister(sender, verifier) ==
    IF variant = "versioned"
    THEN register_verifier(registry, sender, verifier, epoch)
    ELSE register_verifier_src(registry, sender, verifier, epoch)

CreateTrustProfile(sender, user, did, metadata_cid) ==
    LET r == CallCreate(sender, user, did, metadata_cid)
    IN  /\ registry' = r.st
        /\ lastTx' = Tx("create_trust_profile", r)
        /\ accepted' = IF r.abort = "OK" THEN [accepted EXCEPT ![user] = 0] ELSE accepted
        /\ UNCHANGED <<variant, epoch, oracleVars, badges, tierVars, offLedgerVars>>

UpdateTrustScore(sender, user, new_score, metadata_cid) ==
    LET r == CallUpdate(sender, user, new_score, metadata_cid)
    IN  /\ accepted[user] < MaxVersion - 1
        /\ registry' = r.st
        /\ lastTx' = Tx("update_trust_score", r)
        /\ accepted' = IF r.abort = "OK" THEN [accepted EXCEPT ![user] = @ + 1] ELSE accepted
        /\ UNCHANGED <<variant, epoch, oracleVars, badges, tierVars, offLedgerVars>>

AddVerifiedAccount(sender, user, provider, username) ==
    LET acct == [provider |-> provider, username |-> username, proof_hash |-> <<171>>,
                 account_id |-> "1"]
        r == CallAddAccount(sender, user, acct)
    IN  /\ HasProfile(user) => Len(ProfileOf(user).verified_accounts) < MaxAccounts
        /\ registry' = r.st
        /\ lastTx' = Tx("add_verified_account", r)
        /\ UNCHANGED <<variant, epoch, accepted, oracleVars, badges, tierVars, offLedgerVars>>

RegisterVerifier(sender, verifier) ==
    LET r == CallRegister(sender, verifier)
    IN  /\ Len(registry.verifiers) < MaxVerifiers
        /\ registry' = r.st
        /\ lastTx' = Tx("register_verifier", r)
        /\ UNCHANGED <<variant, epoch, accepted, oracleVars, badges, tierVars, offLedgerVars>>

\* the ledger moves on to a later epoch
AdvanceEpoch ==
    /\ epoch < MaxEpoch
    /\ epoch' = epoch + 1
    /\ UNCHANGED <<registryVars, lastTx, oracleVars, badges, tierVars, offLedgerVars>>

\* the ledger after the three modules were published
InitLedger ==
    /\ variant \in {"sources", "versioned"}
    /\ registry = IF variant = "versioned" THEN init_versioned ELSE init_sources
    /\ epoch = 0
    /\ lastTx = NoTx
    /\ accepted = [u \in Subjects |-> 0]
    /\ oracle = init_oracle
    /\ everVerifier = {}
    /\ badges = <<>>

\* the mirror row of a user before any event was applied
NoRecord == [trust_score |-> 0, metadata_cid |-> "", accounts |-> {}, badges |-> {}]
NoStep == [op |-> "none", startTime |-> 0, endTime |-> 0]

NoReplay == [active |-> FALSE]

ConnIds == {"c1", "c2"}
\* a connection the server has not seen yet
NoSocket == [readyState |-> "NONE", token |-> <<>>, listeners |-> FALSE, ended |-> FALSE]
\* new Map()
NoClients == [c \in {} |-> [ws |-> c, userId |-> "", sessionId |-> c]]

\* new BlockchainEventProcessor(network, wsService?)
InitProcessor ==
    /\ chain = <<>>
    /\ mirror = [u \in Subjects |-> NoRecord]
    /\ handled = <<>>
    /\ wsService \in BOOLEAN
    /\ lastStep = NoStep
    /\ subscription = [connected |-> TRUE, next |-> 1]
    /\ replaying = NoReplay
    /\ poison = {}
    /\ clients = NoClients
    /\ sockets = [c \in ConnIds |-> NoSocket]

NoJob == [name |-> "none"]
\* the ids a verify-account job may carry, and the rows that exist at the start
AccountIds == {"a1", "a2", "a3"}
AccountUser == [a1 |-> "s1", a2 |-> "s2"]
EmptyQueue == [waiting |-> <<>>, active |-> NoJob]

NoRecalc == [via |-> "none"]

\* new QueueService()
InitQueues ==
    /\ trustScoreQueue = EmptyQueue
    /\ blockchainQueue = EmptyQueue
    /\ inflight = EmptyBag
    /\ failedJobs = <<>>
    /\ lastRecalc = NoRecalc
    /\ verificationQueue = [waiting |-> <<>>, active |-> NoJob, finished |-> <<>>]
    /\ linkedAccounts = [a \in AccountIds |->
                            [exists |-> a \in DOMAIN AccountUser,
                             userId |-> IF a \in DOMAIN AccountUser THEN AccountUser[a] ELSE "",
                             verified |-> FALSE]]

InitOffLedger == InitProcessor /\ wsService /\ InitQueues

InitRegistry ==
    /\ InitLedger
    /\ score_in = 0
    /\ tier_out = NoTier
    /\ InitOffLedger

NextRegistry ==
    \/ \E sender \in RegSenders, user \in Subjects, did \in DIDs, cid \in CreateCIDs :
          CreateTrustProfile(sender, user, did, cid)
    \/ \E sender \in RegSenders, user \in Subjects, new_score \in RegScores, cid \in UpdateCIDs :
          UpdateTrustScore(sender, user, new_score, cid)
    \/ \E sender \in RegSenders, user \in Subjects, provider \in Providers,
          username \in Usernames :
          AddVerifiedAccount(sender, user, provider, username)
    \/ \E sender \in RegSenders, verifier \in RegVerifierArgs :
          RegisterVerifier(sender, verifier)

SpecRegistry == InitRegistry /\ [][NextRegistry]_vars

---------------------------------------------------------------------------
(* Claims about trust_registry, checked under SpecRegistry *)

\* some update_trust_score call of this step, with these arguments, committed
UpdateCommitted(user, new_score) ==
    /\ lastTx'.abort = "OK"
    /\ \E sender \in RegSenders, cid \in UpdateCIDs :
          UpdateTrustScore(sender, user, new_score, cid)

\* C1: after N accepted update_trust_score calls on a profile made by
\* create_trust_profile, and no other mutating call on it, the profile's version
\* is 1 + N and its trust_score is the new_score of the latest accepted call;
\* a rejected call changes neither.
C1_VersionCountsUpdates ==
    [][ /\ \A u \in Subjects :
              (HasProfile(u) /\ ProfileOf(u).verified_accounts = <<>>)' =>
                  /\ "version" \in DOMAIN ProfileOf(u)'
                  /\ ProfileOf(u)'.version = 1 + accepted'[u]
        /\ \A u \in Subjects, sc \in RegScores :
              UpdateCommitted(u, sc) => ProfileOf(u)'.trust_score = sc
        /\ lastTx'.abort # "OK" => registry' = registry
      ]_vars

\* C1, the part that holds of both variants: an accepted call stores its
\* new_score, a rejected call changes nothing, and in the "versioned" variant
\* version = 1 + N.
C1_ScoreIsLatestAccepted ==
    [][ /\ \A u \in Subjects :
              (variant = "versioned" /\ HasProfile(u)
                 /\ ProfileOf(u).verified_accounts = <<>>)' =>
                  ProfileOf(u)'.version = 1 + accepted'[u]
        /\ \A u \in Subjects, sc \in RegScores :
              UpdateCommitted(u, sc) => ProfileOf(u)'.trust_score = sc
        /\ lastTx'.abort # "OK" => registry' = registry
      ]_vars

\* two accepted updates in a row on a fresh profile
C1_Witness ==
    \E u \in Subjects :
        /\ HasProfile(u) /\ accepted[u] = 2
        /\ ProfileOf(u).verified_accounts = <<>>
        /\ lastTx = [fn |-> "update_trust_score", abort |-> "OK",
                     events |-> <<"TrustScoreUpdated">>]

\* the profiles stored in a registry value of the published variant
ProfilesIn(reg) ==
    IF variant = "versioned" THEN [i \in 1..Len(reg.users) |-> reg.users[i].value]
    ELSE reg.users

\* C2: create_trust_profile for a subject that has a profile fails with
\* EUserAlreadyExists (ENotAdmin when the caller is not the admin) and leaves the
\* registry, every field of every profile and the number of profiles included,
\* as it was; no owner ever has two profiles.
C2_SecondCreateRejected ==
    /\ \A sender \in RegSenders, u \in Subjects, did \in DIDs, cid \in CreateCIDs :
          HasProfile(u) =>
              /\ CallCreate(sender, u, did, cid).abort =
                    IF sender = ADMIN THEN "EUserAlreadyExists" ELSE "ENotAdmin"
              /\ CallCreate(sender, u, did, cid).st = registry
              /\ ProfilesIn(CallCreate(sender, u, did, cid).st) = Profiles
    /\ \A u \in Subjects : Cardinality(OwnedBy(u)) <= 1
    /\ variant = "versioned" => registry.user_count = Len(registry.users)

\* the admin's second create for a subject was rejected
C2_Witness ==
    /\ lastTx = [fn |-> "create_trust_profile", abort |-> "EUserAlreadyExists",
                 events |-> <<>>]
    /\ \E u \in Subjects : HasProfile(u) /\ accepted[u] > 0

\* C3: update_trust_score by a registered verifier on an existing profile commits
\* for new_score = 100 and aborts with EInvalidScore for every new_score > 100,
\* leaving the profile as it was; every stored trust_score is within 0..100.
C3_ScoreAtMost100 ==
    [][ /\ \A sender \in RegSenders, u \in Subjects, sc \in RegScores, cid \in UpdateCIDs :
              (/\ is_verifier(registry, sender) /\ HasProfile(u)
               /\ UpdateTrustScore(sender, u, sc, cid)) =>
                  /\ sc = 100 => lastTx'.abort = "OK" /\ ProfileOf(u)'.trust_score = 100
                  /\ sc > 100 => lastTx'.abort = "EInvalidScore" /\ registry' = registry
        /\ \A u \in Subjects : HasProfile(u)' => ProfileOf(u)'.trust_score \in 0..100
      ]_vars

---------------------------------------------------------------------------
(* reputation_oracle: one action per entry function *)

CallSubmit(sender, user, score, timestamp, signature, metadata_cid) ==
    submit_score_update(oracle, sender, user, score, timestamp, signature, metadata_cid)

AddVerifier(sender, verifier) ==
    LET r == add_verifier(oracle, sender, verifier)
    IN  /\ oracle' = r.st
        /\ everVerifier' = everVerifier \cup {r.st.verifiers[i] : i \in 1..Len(r.st.verifiers)}
        /\ lastTx' = Tx("add_verifier", r)
        /\ UNCHANGED <<registryVars, epoch, badges, tierVars, offLedgerVars>>

RemoveVerifier(sender, verifier) ==
    LET r == remove_verifier(oracle, sender, verifier)
    IN  /\ oracle' = r.st
        /\ lastTx' = Tx("remove_verifier", r)
        /\ UNCHANGED <<registryVars, epoch, everVerifier, badges, tierVars, offLedgerVars>>

SubmitScoreUpdate(sender, user, score, timestamp, signature, metadata_cid) ==
    LET r == CallSubmit(sender, user, score, timestamp, signature, metadata_cid)
    IN  /\ BagCardinality(oracle.score_updates) < MaxObs
        /\ oracle' = r.st
        /\ lastTx' = Tx("submit_score_update", r)
        /\ UNCHANGED <<registryVars, epoch, everVerifier, badges, tierVars, offLedgerVars>>

InitOracle == InitRegistry /\ variant = "versioned"

NextOracle ==
    \/ \E sender \in OracleSenders, verifier \in OracleVerifierArgs :
          AddVerifier(sender, verifier)
    \/ \E sender \in OracleSenders, verifier \in OracleVerifierArgs :
          RemoveVerifier(sender, verifier)
    \/ \E sender \in OracleSenders, user \in Subjects, score \in OracleScores,
          timestamp \in Timestamps, signature \in Signatures, cid \in UpdateCIDs :
          SubmitScoreUpdate(sender, user, score, timestamp, signature, cid)

SpecOracle == InitOracle /\ [][NextOracle]_vars

---------------------------------------------------------------------------
(* Claims about reputation_oracle, checked under SpecOracle *)

\* the stored updates of one subject
UpdatesOf(user) == {e \in DOMAIN oracle.score_updates : e.user = user}

\* over a set S of stored updates: how many are stored, and the sum of their scores
RECURSIVE CountIn(_)
CountIn(S) ==
    IF S = {} THEN 0
    ELSE LET e == CHOOSE x \in S : TRUE
         IN  oracle.score_updates[e] + CountIn(S \ {e})

RECURSIVE TotalIn(_)
TotalIn(S) ==
    IF S = {} THEN 0
    ELSE LET e == CHOOSE x \in S : TRUE
         IN  oracle.score_updates[e] * e.score + TotalIn(S \ {e})

\* how many stored updates of user carry this score
ScoreCount(user, score) == CountIn({e \in UpdatesOf(user) : e.score = score})

SubmitCommitted ==
    lastTx = [fn |-> "submit_score_update", abort |-> "OK",
              events |-> <<"ScoreUpdateSigned">>]

\* C4, as claimed: get_consensus_score(subject) is (the arithmetic mean of the
\* scores of the stored observations of that subject, their number), and (50, 0)
\* when there are none.
C4_ExactMean ==
    \A u \in Subjects :
        LET r == get_consensus_score(oracle, u)
        IN  IF UpdatesOf(u) = {} THEN r = <<50, 0>>
            ELSE /\ r[2] = CountIn(UpdatesOf(u))
                 /\ r[1] * r[2] = TotalIn(UpdatesOf(u))

\* C4, amended: the score is the mean truncated to an integer (u64 division);
\* the count is the number of the subject's observations; (50, 0) when there are
\* none; [40, 60, 80] gives 60; the observations of other subjects play no part.
C4_TruncatedMean ==
    \A u \in Subjects :
        LET r == get_consensus_score(oracle, u)
            n == CountIn(UpdatesOf(u))
            total == TotalIn(UpdatesOf(u))
        IN  /\ UpdatesOf(u) = {} => r = <<50, 0>>
            /\ UpdatesOf(u) # {} =>
                  /\ r[2] = n
                  /\ r[1] * n <= total /\ total < (r[1] + 1) * n
            /\ (n = 3 /\ \A sc \in {40, 60, 80} : ScoreCount(u, sc) = 1) => r = <<60, 3>>

\* a subject with observations 40, 40, 60 (mean 46 2/3, reported 46) while the
\* other subject has an observation of its own
C4_Witness ==
    /\ SubmitCommitted
    /\ \E u \in Subjects :
          /\ ScoreCount(u, 40) = 2 /\ ScoreCount(u, 60) = 1 /\ CountIn(UpdatesOf(u)) = 3
          /\ get_consensus_score(oracle, u) = <<46, 3>>
          /\ \E w \in Subjects \ {u} : UpdatesOf(w) # {}

\* C10: submit_score_update sent by an address that is not in oracle.verifiers
\* (never added, or added and removed) aborts with ENotVerifier, stores nothing
\* and emits no event; every stored observation names a verifier that has been
\* in the verifier set.
C10_OnlyVerifiersSubmit ==
    /\ \A sender \in OracleSenders, u \in Subjects, sc \in OracleScores,
          ts \in Timestamps, sig \in Signatures, cid \in UpdateCIDs :
          (\A i \in 1..Len(oracle.verifiers) : oracle.verifiers[i] # sender) =>
              /\ CallSubmit(sender, u, sc, ts, sig, cid).abort = "ENotVerifier"
              /\ CallSubmit(sender, u, sc, ts, sig, cid).st = oracle
              /\ CallSubmit(sender, u, sc, ts, sig, cid).events = <<>>
    /\ \A e \in DOMAIN oracle.score_updates : e.verifier \in everVerifier
    /\ lastTx.fn = "submit_score_update" /\ lastTx.abort # "OK" => lastTx.events = <<>>

\* a verifier that stored an observation was removed, and its next submission
\* was rejected
C10_Witness ==
    /\ lastTx = [fn |-> "submit_score_update", abort |-> "ENotVerifier", events |-> <<>>]
    /\ \E e \in DOMAIN oracle.score_updates :
          /\ e.verifier \in everVerifier
          /\ \A i \in 1..Len(oracle.verifiers) : oracle.verifiers[i] # e.verifier

---------------------------------------------------------------------------
(* trust_badge: actions *)

MintTrustBadge(owner, badge_type, trust_score, metadata_url) ==
    LET r == mint_trust_badge(badges, owner, badge_type, trust_score, metadata_url, epoch)
    IN  /\ Len(badges) < MaxBadges
        /\ badges' = r.st
        /\ lastTx' = Tx("mint_trust_badge", r)
        /\ UNCHANGED <<registryVars, epoch, oracleVars, tierVars, offLedgerVars>>

\* the tier functions applied to score_in
ApplyTier ==
    /\ tier_out = NoTier
    /\ tier_out' = [tier |-> get_badge_tier(score_in), level |-> getBadgeLevel(score_in)]
    /\ UNCHANGED <<registryVars, epoch, lastTx, oracleVars, badges, score_in, offLedgerVars>>

InitTier ==
    /\ variant = "versioned"
    /\ registry = init_versioned
    /\ epoch = 0
    /\ lastTx = NoTx
    /\ accepted = [u \in Subjects |-> 0]
    /\ oracle = init_oracle
    /\ everVerifier = {}
    /\ badges = <<>>
    /\ score_in \in 0..MaxTierScore
    /\ tier_out = NoTier
    /\ InitOffLedger

NextTier == ApplyTier

SpecTier == InitTier /\ [][NextTier]_vars

\* the tier table of the data model: Bronze < 60, Silver 60-69, Gold 70-79,
\* Platinum 80-89, Diamond >= 90
TierRange ==
    [Bronze |-> 0..59, Silver |-> 60..69, Gold |-> 70..79, Platinum |-> 80..89,
     Diamond |-> 90..100]

\* C5: the tier functions (get_badge_tier on the ledger, getBadgeLevel in the
\* client) map every score in 0..100 to exactly the tier whose range holds it,
\* lower bounds inclusive: 59 Bronze, 60 Silver, 69 Silver, 70 Gold, 89 Platinum,
\* 90 Diamond.
C5_TierBoundaries ==
    (tier_out # NoTier /\ score_in \in 0..100) =>
        /\ \A t \in BadgeTypes :
              /\ tier_out.tier = t <=> score_in \in TierRange[t]
              /\ tier_out.level = t <=> score_in \in TierRange[t]
        /\ score_in = 59 => tier_out.tier = "Bronze"
        /\ score_in \in {60, 69} => tier_out.tier = "Silver"
        /\ score_in = 70 => tier_out.tier = "Gold"
        /\ score_in = 89 => tier_out.tier = "Platinum"
        /\ score_in = 90 => tier_out.tier = "Diamond"

\* the lower bound of a tier, evaluated
C5_Witness == score_in = 60 /\ tier_out = [tier |-> "Silver", level |-> "Silver"]

---------------------------------------------------------------------------
(* The end-to-end scenario: registry, oracle and badge together *)

E2ESubject == "s1"
E2EScores == {70, 90}
E2EBadgeTypes == {"Bronze", "Platinum"}
E2EMintScores == {80}

NextE2E ==
    \/ \E cid \in CreateCIDs : CreateTrustProfile(ADMIN, E2ESubject, "did:a", cid)
    \/ \E verifier \in OracleVerifierArgs : AddVerifier(ADMIN, verifier)
    \/ \E sender \in OracleVerifierArgs, score \in E2EScores, timestamp \in Timestamps,
          signature \in Signatures, cid \in UpdateCIDs :
          SubmitScoreUpdate(sender, E2ESubject, score, timestamp, signature, cid)
    \/ \E badge_type \in E2EBadgeTypes, trust_score \in E2EMintScores :
          MintTrustBadge(E2ESubject, badge_type, trust_score, "url0")

SpecE2E == InitRegistry /\ [][NextE2E]_vars

\* the observations of the scenario: 70 by v1 and 90 by v2, and no other
ScenarioObserved ==
    /\ HasProfile(E2ESubject)
    /\ BagCardinality(oracle.score_updates) = 2
    /\ \E e \in DOMAIN oracle.score_updates :
          e.user = E2ESubject /\ e.score = 70 /\ e.verifier = "v1"
    /\ \E e \in DOMAIN oracle.score_updates :
          e.user = E2ESubject /\ e.score = 90 /\ e.verifier = "v2"

\* C9: after create_trust_profile(S) (trust_score 50), an accepted observation of
\* 70 by v1 and one of 90 by v2, get_consensus_score(S) is (80, 2), and a badge
\* minted for S at score 80 has badge_type "Platinum".
C9_EndToEnd ==
    ScenarioObserved =>
        /\ ProfileOf(E2ESubject).trust_score = 50
        /\ get_consensus_score(oracle, E2ESubject) = <<80, 2>>
        /\ \A i \in 1..Len(badges) :
              (badges[i].badge.owner = E2ESubject /\ badges[i].badge.trust_score = 80) =>
                  badges[i].badge.badge_type = "Platinum"

\* C9 up to the mint: the profile starts at 50 and the consensus is (80, 2)
C9_ConsensusOfScenario ==
    ScenarioObserved =>
        /\ ProfileOf(E2ESubject).trust_score = 50
        /\ get_consensus_score(oracle, E2ESubject) = <<80, 2>>

---------------------------------------------------------------------------
(* BlockchainEventProcessor (backend/api/src/scripts/seed.ts) *)

MaxEvents == 3        \* events the package emits
MaxDeliveries == 3    \* calls of processEvent
PageLimit == 2        \* events in one queryEvents page (scaled: a page of the RPC holds 50)

EventSubjects == {"s1"}
EventScores == {60, 90}
ReplayStarts == {0, 2}
ReplayEnds == {1, MaxEvents + 1}

NotHandled == [deliveries |-> 0, mirror_updates |-> 0, notifications |-> 0, steps |-> <<>>]

\* the names setupEventHandlers registers a handler for
eventHandlers == {"TrustScoreUpdated", "AccountVerified", "TrustBadgeMinted", "ScoreUpdateSigned"}

\* event.type.split('::').pop()
SplitPop(type) == type[Len(type)]

updateUserTrustScore(m, userAddress, score, metadataCid) ==
    [m EXCEPT ![userAddress] = [@ EXCEPT !.trust_score = score, !.metadata_cid = metadataCid]]

updateAccountVerification(m, userAddress, provider, username) ==
    [m EXCEPT ![userAddress] = [@ EXCEPT !.accounts = @ \cup {<<provider, username>>}]]

updateUserBadge(m, userAddress, badgeType, score, metadataUrl) ==
    [m EXCEPT ![userAddress] = [@ EXCEPT !.badges = @ \cup {<<badgeType, score, metadataUrl>>}]]

processOracleScoreUpdate(m, userAddress, score, verifier, timestamp) == m

\* if (this.wsService) this.wsService.send...(user, ...): the steps it adds
Notify(ws) == IF ws THEN <<"notify">> ELSE <<>>

\* handleTrustScoreUpdate with the two statements exchanged
handleTrustScoreUpdate_notify_first(m, ws, event) ==
    LET j == event.parsedJson
    IN  [mirror |-> updateUserTrustScore(m, j.user, j.new_score, j.metadata_cid),
         updates |-> 1, notifications |-> Len(Notify(ws)),
         steps |-> Notify(ws) \o <<"update">>]

\* a handler's result: the mirror, whether it called the mirror update, whether
\* it handed a notification to the WebSocketService, and the order of the two
handleTrustScoreUpdate(m, ws, event) ==
    LET j == event.parsedJson
    IN  [mirror |-> updateUserTrustScore(m, j.user, j.new_score, j.metadata_cid),
         updates |-> 1, notifications |-> Len(Notify(ws)),
         steps |-> <<"update">> \o Notify(ws)]

handleAccountVerified(m, ws, event) ==
    LET j == event.parsedJson
    IN  [mirror |-> updateAccountVerification(m, j.user, j.provider, j.username),
         updates |-> 1, notifications |-> Len(Notify(ws)),
         steps |-> <<"update">> \o Notify(ws)]

handleBadgeMinted(m, ws, event) ==
    LET j == event.parsedJson
    IN  [mirror |-> updateUserBadge(m, j.owner, j.badge_type, j.trust_score, j.metadata_url),
         updates |-> 1, notifications |-> Len(Notify(ws)),
         steps |-> <<"update">> \o Notify(ws)]

handleScoreUpdateSigned(m, ws, event) ==
    LET j == event.parsedJson
    IN  [mirror |-> processOracleScoreUpdate(m, j.user, j.score, j.verifier, j.timestamp),
         updates |-> 1, notifications |-> 0, steps |-> <<"update">>]

\* processEvent without its try/catch: what the handler throws leaves the function
Rethrown(threw) == threw

\* try { ... } catch (error) { console.error(...) }: nothing thrown inside leaves
\* processEvent
Caught(threw) == FALSE

\* processEvent on st = [mirror, handled, threw]: dispatch on the last segment of
\* the type; the handler of an event in poison throws before it has written
processEvent(st, ws, event) ==
    LET eventType == SplitPop(event.type)
        r == IF eventType \notin eventHandlers \/ event.seq \in poison
                THEN [mirror |-> st.mirror, updates |-> 0, notifications |-> 0, steps |-> <<>>]
             ELSE IF eventType = "TrustScoreUpdated" THEN handleTrustScoreUpdate(st.mirror, ws, event)
             ELSE IF eventType = "AccountVerified" THEN handleAccountVerified(st.mirror, ws, event)
             ELSE IF eventType = "TrustBadgeMinted" THEN handleBadgeMinted(st.mirror, ws, event)
             ELSE handleScoreUpdateSigned(st.mirror, ws, event)
    IN  [mirror |-> r.mirror,
         handled |-> [st.handled EXCEPT ![event.seq] =
                        [deliveries |-> @.deliveries + 1,
                         mirror_updates |-> @.mirror_updates + r.updates,
                         notifications |-> @.notifications + r.notifications,
                         steps |-> @.steps \o r.steps]],
         threw |-> Caught(eventType \in eventHandlers /\ event.seq \in poison)]

\* client.queryEvents({query, order: 'ascending'}): the first page of the stream
queryEvents(events) == SubSeq(events, 1, IF Len(events) < PageLimit THEN Len(events) ELSE PageLimit)

\* an exception that reaches the loop ends it (the catch of replayEvents logs it)
RECURSIVE ReplayLoop(_, _, _, _, _, _)
ReplayLoop(st, ws, data, k, startTime, endTime) ==
    IF k > Len(data) \/ st.threw THEN st
    ELSE ReplayLoop(IF data[k].timestampMs >= startTime /\ data[k].timestampMs <= endTime
                        THEN processEvent(st, ws, data[k])
                        ELSE st,
                    ws, data, k + 1, startTime, endTime)

replayEvents(st, ws, events, startTime, endTime) ==
    ReplayLoop(st, ws, queryEvents(events), 1, startTime, endTime)

RECURSIVE SumDeliveries(_, _)
SumDeliveries(h, k) == IF k > Len(h) THEN 0 ELSE h[k].deliveries + SumDeliveries(h, k + 1)

RECURSIVE LastScoreFrom(_, _, _)
LastScoreFrom(events, k, user) ==
    IF k = 0 THEN 50
    ELSE IF SplitPop(events[k].type) = "TrustScoreUpdated" /\ events[k].parsedJson.user = user
            THEN events[k].parsedJson.new_score
    ELSE LastScoreFrom(events, k - 1, user)

\* the fields of each event struct of the package
ParsedJson(name, user, value) ==
    IF name = "TrustScoreUpdated"
        THEN [user |-> user, old_score |-> LastScoreFrom(chain, Len(chain), user),
              new_score |-> value, metadata_cid |-> "cid1"]
    ELSE IF name = "AccountVerified"
        THEN [user |-> user, provider |-> "github", username |-> "alice"]
    ELSE IF name = "TrustProfileCreated"
        THEN [user |-> user, did |-> "did:a"]
    ELSE IF name = "TrustBadgeMinted"
        THEN [owner |-> user, badge_type |-> get_badge_tier(value), trust_score |-> value,
              metadata_url |-> "url0"]
    ELSE [user |-> user, score |-> value, verifier |-> "v1", timestamp |-> 0]

\* event k of the stream, as the subscription and queryEvents hand it over
SuiEvent(k, module, name, parsedJson) ==
    [type |-> <<"0xpackage", module, name>>, parsedJson |-> parsedJson, seq |-> k,
     timestampMs |-> k]

\* event::emit in a committed transaction of the package
Emit(module, name, user, value) ==
    /\ Len(chain) < MaxEvents
    /\ chain' = Append(chain, SuiEvent(Len(chain) + 1, module, name,
                                       ParsedJson(name, user, value)))
    /\ handled' = Append(handled, NotHandled)
    /\ lastStep' = [NoStep EXCEPT !.op = "emit"]
    /\ UNCHANGED <<ledgerVars, tierVars, wsVars, verifyVars, mirror, wsService, feedVars, queueVars>>

EmitTrustScoreUpdated(user, new_score) ==
    Emit("trust_registry", "TrustScoreUpdated", user, new_score)

EmitAccountVerified(user) == Emit("trust_registry", "AccountVerified", user, 0)

EmitTrustProfileCreated(user) == Emit("trust_registry", "TrustProfileCreated", user, 0)

EmitTrustBadgeMinted(owner, trust_score) ==
    Emit("trust_badge", "TrustBadgeMinted", owner, trust_score)

EmitScoreUpdateSigned(user, score) ==
    Emit("reputation_oracle", "ScoreUpdateSigned", user, score)

\* the subscription's onMessage hands event i of the stream to processEvent
OnMessage(i) ==
    LET st == processEvent([mirror |-> mirror, handled |-> handled, threw |-> FALSE], wsService, chain[i])
    IN  /\ SumDeliveries(handled, 1) < MaxDeliveries
        /\ mirror' = st.mirror
        /\ handled' = st.handled
        /\ lastStep' = [NoStep EXCEPT !.op = "onMessage"]
        /\ UNCHANGED <<ledgerVars, tierVars, wsVars, verifyVars, chain, wsService, feedVars, queueVars>>

ReplayEvents(startTime, endTime) ==
    LET st == replayEvents([mirror |-> mirror, handled |-> handled, threw |-> FALSE], wsService, chain,
                           startTime, endTime)
    IN  /\ SumDeliveries(handled, 1) < MaxDeliveries
        /\ mirror' = st.mirror
        /\ handled' = st.handled
        /\ lastStep' = [op |-> "replayEvents", startTime |-> startTime, endTime |-> endTime]
        /\ UNCHANGED <<ledgerVars, tierVars, wsVars, verifyVars, chain, wsService, feedVars, queueVars>>

InitEvents ==
    /\ InitLedger
    /\ variant = "versioned"
    /\ score_in = 0
    /\ tier_out = NoTier
    /\ InitProcessor
    /\ InitQueues

NextEvents ==
    \/ \E user \in EventSubjects, new_score \in EventScores : EmitTrustScoreUpdated(user, new_score)
    \/ \E user \in EventSubjects : EmitAccountVerified(user)
    \/ \E user \in EventSubjects : EmitTrustProfileCreated(user)
    \/ \E owner \in EventSubjects, trust_score \in EventScores : EmitTrustBadgeMinted(owner, trust_score)
    \/ \E user \in EventSubjects, score \in EventScores : EmitScoreUpdateSigned(user, score)
    \/ \E i \in 1..Len(chain) : OnMessage(i)
    \/ \E startTime \in ReplayStarts, endTime \in ReplayEnds : ReplayEvents(startTime, endTime)

SpecEvents == InitEvents /\ [][NextEvents]_vars

\* C6: an event delivered to the EventProcessor more than once (same type,
\* subject and sequence) is applied once: every delivery after the first is
\* skipped, so its handler updates the mirror at most once and publishes at
\* most one notification.
C6_AppliedOnce ==
    \A i \in 1..Len(handled) :
        handled[i].mirror_updates <= 1 /\ handled[i].notifications <= 1

\* the mirror row of a user after the events of the stream were each processed
\* once, in ledger order
RECURSIVE AccountsIn(_, _, _)
AccountsIn(events, k, user) ==
    IF k = 0 THEN {}
    ELSE AccountsIn(events, k - 1, user) \cup
         (IF SplitPop(events[k].type) = "AccountVerified" /\ events[k].parsedJson.user = user
             THEN {<<events[k].parsedJson.provider, events[k].parsedJson.username>>}
             ELSE {})

ScoreEventsOf(user) ==
    {k \in 1..Len(chain) :
        SplitPop(chain[k].type) = "TrustScoreUpdated" /\ chain[k].parsedJson.user = user}

InOrderScore(user) ==
    IF ScoreEventsOf(user) = {} THEN NoRecord.trust_score
    ELSE chain[CHOOSE k \in ScoreEventsOf(user) :
                  \A l \in ScoreEventsOf(user) : l <= k].parsedJson.new_score

\* C7: after the events of a subject were fed in any order, with duplicates, a
\* replay from the start (a time range that holds every event) leaves the
\* mirror as processing each event once, in ledger order, leaves it.
C7_ReplayConverges ==
    (/\ lastStep.op = "replayEvents"
     /\ lastStep.startTime = 0
     /\ lastStep.endTime >= Len(chain)) =>
        \A user \in EventSubjects :
            /\ mirror[user].trust_score = InOrderScore(user)
            /\ mirror[user].accounts = AccountsIn(chain, Len(chain), user)

---------------------------------------------------------------------------
(* QueueService (unnamed/part_012) and POST /recalculate (routes/trust-score.ts) *)

MaxJobs == 2        \* waiting jobs per queue
MaxRequests == 1    \* concurrent POST /recalculate requests per user

QueueUsers == Subjects
QueueScores == {60}
\* results of trustScoreService.calculateTrustScore: the mirror's score and another
CalculatedScores == {NoRecord.trust_score, 60}

\* a pending suiService.updateTrustScore(walletAddress, ...) call and who made it
Write(walletAddress, via) == [walletAddress |-> walletAddress, via |-> via]

\* queue.add(name, data)
QueueAdd(queue, job) == [queue EXCEPT !.waiting = Append(@, job)]

\* the worker of queue.process(name, handler) takes the next waiting job
QueueTake(queue) == [waiting |-> Tail(queue.waiting), active |-> Head(queue.waiting)]

QueueBlockchainUpdate(walletAddress, score) ==
    /\ Len(blockchainQueue.waiting) < MaxJobs
    /\ blockchainQueue' =
          QueueAdd(blockchainQueue,
                   [name |-> "update-profile", walletAddress |-> walletAddress, score |-> score,
                    attemptsMade |-> 0])
    /\ UNCHANGED <<ledgerVars, tierVars, wsVars, verifyVars, processorVars, trustScoreQueue, inflight, failedJobs, lastRecalc>>

QueueTrustScoreCalculation(userId) ==
    /\ Len(trustScoreQueue.waiting) < MaxJobs
    /\ trustScoreQueue' = QueueAdd(trustScoreQueue, [name |-> "calculate-score", userId |-> userId])
    /\ UNCHANGED <<ledgerVars, tierVars, wsVars, verifyVars, processorVars, blockchainQueue, inflight, failedJobs, lastRecalc>>

\* the 'update-profile' processor up to its call of suiService.updateTrustScore
ProcessUpdateProfile ==
    /\ blockchainQueue.active = NoJob
    /\ blockchainQueue.waiting # <<>>
    /\ blockchainQueue' = QueueTake(blockchainQueue)
    /\ inflight' = inflight (+)
                   SetToBag({Write(Head(blockchainQueue.waiting).walletAddress, "update-profile")})
    /\ UNCHANGED <<ledgerVars, tierVars, wsVars, verifyVars, processorVars, trustScoreQueue, failedJobs, lastRecalc>>

\* the call resolves and the job completes
UpdateProfileDone ==
    /\ blockchainQueue.active # NoJob
    /\ blockchainQueue' = [blockchainQueue EXCEPT !.active = NoJob]
    /\ inflight' = inflight (-)
                   SetToBag({Write(blockchainQueue.active.walletAddress, "update-profile")})
    /\ UNCHANGED <<ledgerVars, tierVars, wsVars, verifyVars, processorVars, trustScoreQueue, failedJobs, lastRecalc>>

\* queue.add(name, data) is called without options: a job gets Bull's default
\* of one attempt and no backoff
JobAttempts == 1

\* the call rejects, the handler throws, and Bull either schedules the job again
\* or moves it to the failed set
UpdateProfileFailed ==
    LET job == [blockchainQueue.active EXCEPT !.attemptsMade = @ + 1]
    IN  /\ blockchainQueue.active # NoJob
        /\ Len(failedJobs) < MaxJobs
        /\ inflight' = inflight (-) SetToBag({Write(job.walletAddress, "update-profile")})
        /\ IF job.attemptsMade < JobAttempts
              THEN /\ blockchainQueue' = [waiting |-> Append(blockchainQueue.waiting, job),
                                          active |-> NoJob]
                   /\ UNCHANGED failedJobs
              ELSE /\ blockchainQueue' = [blockchainQueue EXCEPT !.active = NoJob]
                   /\ failedJobs' = Append(failedJobs, job)
        /\ UNCHANGED <<ledgerVars, tierVars, wsVars, verifyVars, processorVars, trustScoreQueue, lastRecalc>>

\* a recalculation: trustScoreService.calculateTrustScore(user) returned score
\* while the mirror held current, and the caller went on to updateTrustScore
Recalculation(via, userId, score) ==
    [via |-> via, userId |-> userId, current |-> mirror[userId].trust_score, score |-> score]

\* the 'calculate-score' processor up to its call of suiService.updateTrustScore
ProcessCalculateScore(score) ==
    /\ trustScoreQueue.active = NoJob
    /\ trustScoreQueue.waiting # <<>>
    /\ trustScoreQueue' = QueueTake(trustScoreQueue)
    /\ inflight' = inflight (+)
                   SetToBag({Write(Head(trustScoreQueue.waiting).userId, "calculate-score")})
    /\ lastRecalc' = Recalculation("calculate-score", Head(trustScoreQueue.waiting).userId, score)
    /\ UNCHANGED <<ledgerVars, tierVars, wsVars, verifyVars, processorVars, blockchainQueue, failedJobs>>

CalculateScoreDone ==
    /\ trustScoreQueue.active # NoJob
    /\ trustScoreQueue' = [trustScoreQueue EXCEPT !.active = NoJob]
    /\ inflight' = inflight (-)
                   SetToBag({Write(trustScoreQueue.active.userId, "calculate-score")})
    /\ UNCHANGED <<ledgerVars, tierVars, wsVars, verifyVars, processorVars, blockchainQueue, failedJobs, lastRecalc>>

\* POST /recalculate up to its call of suiService.updateTrustScore
PostRecalculate(userId, score) ==
    /\ CopiesIn(Write(userId, "recalculate"), inflight) < MaxRequests
    /\ inflight' = inflight (+) SetToBag({Write(userId, "recalculate")})
    /\ lastRecalc' = Recalculation("recalculate", userId, score)
    /\ UNCHANGED <<ledgerVars, tierVars, wsVars, verifyVars, processorVars, trustScoreQueue, blockchainQueue,
                   failedJobs>>

RecalculateDone(userId) ==
    /\ BagIn(Write(userId, "recalculate"), inflight)
    /\ inflight' = inflight (-) SetToBag({Write(userId, "recalculate")})
    /\ UNCHANGED <<ledgerVars, tierVars, wsVars, verifyVars, processorVars, trustScoreQueue, blockchainQueue,
                   failedJobs, lastRecalc>>

NextQueues ==
    \/ \E walletAddress \in QueueUsers, score \in QueueScores :
          QueueBlockchainUpdate(walletAddress, score)
    \/ \E userId \in QueueUsers : QueueTrustScoreCalculation(userId)
    \/ ProcessUpdateProfile
    \/ UpdateProfileDone
    \/ UpdateProfileFailed
    \/ \E score \in CalculatedScores : ProcessCalculateScore(score)
    \/ CalculateScoreDone
    \/ \E userId \in QueueUsers, score \in CalculatedScores : PostRecalculate(userId, score)
    \/ \E userId \in QueueUsers : RecalculateDone(userId)

InitQueueService == InitRegistry /\ variant = "versioned"

SpecQueues == InitQueueService /\ [][NextQueues]_vars

RECURSIVE JobsFor(_, _, _)
JobsFor(jobs, k, walletAddress) ==
    IF k > Len(jobs) THEN 0
    ELSE (IF jobs[k].walletAddress = walletAddress THEN 1 ELSE 0)
         + JobsFor(jobs, k + 1, walletAddress)

\* the update-profile jobs of a subject that are waiting or active
UpdateProfileJobs(walletAddress) ==
    JobsFor(blockchainQueue.waiting, 1, walletAddress)
    + (IF blockchainQueue.active # NoJob /\ blockchainQueue.active.walletAddress = walletAddress
          THEN 1 ELSE 0)

\* the ledger writes of a subject that are in flight, whoever issued them
WritesInFlight(walletAddress) ==
    CopiesIn(Write(walletAddress, "update-profile"), inflight)
    + CopiesIn(Write(walletAddress, "calculate-score"), inflight)
    + CopiesIn(Write(walletAddress, "recalculate"), inflight)

\* C8: ledger writes are single-flight per subject: a second queueBlockchainUpdate
\* for a subject whose write has not completed adds nothing, and at most one
\* update_trust_score transaction per subject is in flight, whichever path
\* (update-profile job, calculate-score job, POST /recalculate) issued it.
C8_SingleFlight ==
    \A walletAddress \in QueueUsers :
        UpdateProfileJobs(walletAddress) <= 1 /\ WritesInFlight(walletAddress) <= 1

---------------------------------------------------------------------------
(* reputation_oracle: what submit_score_update checks of its arguments *)

\* the signature of signer over the message (user, score, timestamp), as
\* OracleService.signTrustScoreUpdate produces it: it determines signer and message
Sign(signer, user, score, timestamp) == <<signer, user, score, timestamp>>

SubmitUser == "s1"
SubmitVerifier == "v1"
SubmitScores == {100, 101}
SubmitTimestamps == {0, 2}
\* v1's signature over (s1, 100, 0), and one made by a key that is not v1's
SubmitSignatures == {Sign("v1", "s1", 100, 0), Sign("v2", "s1", 100, 0)}

\* the tolerance the specification leaves to configuration; the module has none
TimestampTolerance == 1

Stale(timestamp, now) ==
    timestamp + TimestampTolerance < now \/ now + TimestampTolerance < timestamp

NextSubmit ==
    \/ AddVerifier(ADMIN, SubmitVerifier)
    \/ \E score \in SubmitScores, timestamp \in SubmitTimestamps,
          signature \in SubmitSignatures, cid \in UpdateCIDs :
          SubmitScoreUpdate(SubmitVerifier, SubmitUser, score, timestamp, signature, cid)
    \/ AdvanceEpoch

SpecSubmit == InitOracle /\ [][NextSubmit]_vars

\* C11: submit_score_update with score > 100 aborts with EInvalidScore and stores
\* nothing, also for a registered verifier; every stored observation has a score
\* in 0..100 and get_consensus_score never returns a score above 100.
C11_ObservationScoreAtMost100 ==
    /\ \A e \in DOMAIN oracle.score_updates : e.score <= 100
    /\ \A u \in Subjects : get_consensus_score(oracle, u)[1] <= 100

\* C12: submit_score_update whose signature is not the submitting verifier's
\* signature over (user, score, timestamp) aborts with EInvalidSignature and
\* stores nothing; every stored observation carries a signature valid for its
\* own verifier, user, score and timestamp.
C12_SignaturesValid ==
    \A e \in DOMAIN oracle.score_updates :
        e.signature = Sign(e.verifier, e.user, e.score, e.timestamp)

\* C13: submit_score_update whose timestamp is further than the tolerance from
\* the ledger time aborts with EStaleTimestamp and stores nothing, so an accepted
\* (user, score, timestamp, signature) is rejected when its verifier submits it
\* again after the tolerance window.
C13_StaleTimestampRejected ==
    \A e \in DOMAIN oracle.score_updates :
        (Stale(e.timestamp, epoch) /\ oracle_is_verifier(oracle, e.verifier)) =>
            LET r == CallSubmit(e.verifier, e.user, e.score, e.timestamp, e.signature,
                                e.metadata_cid)
            IN  r.abort = "EStaleTimestamp" /\ r.st = oracle

---------------------------------------------------------------------------
(* The admin-only entry functions of trust_registry and reputation_oracle *)

AdminSenders == {"admin", "v1", "s1"}
AdminVerifierArgs == {"v1", "s1"}

NextAdmin ==
    \/ \E sender \in AdminSenders, user \in Subjects, cid \in CreateCIDs :
          CreateTrustProfile(sender, user, "did:a", cid)
    \/ \E sender \in AdminSenders, verifier \in AdminVerifierArgs :
          RegisterVerifier(sender, verifier)
    \/ \E sender \in AdminSenders, verifier \in AdminVerifierArgs :
          AddVerifier(sender, verifier)
    \/ \E sender \in AdminSenders, verifier \in AdminVerifierArgs :
          RemoveVerifier(sender, verifier)

SpecAdmin == InitRegistry /\ [][NextAdmin]_vars

\* C14: create_trust_profile, register_verifier, add_verifier and remove_verifier
\* sent by an address other than the admin abort with ENotAdmin and leave the
\* profiles and the verifier lists as they were, so no such sender can add an
\* address to a verifier list; and the admin of either object never changes.
C14_AdminOnly ==
    /\ registry.admin = ADMIN
    /\ oracle.admin = ADMIN
    /\ \A sender \in AdminSenders \ {ADMIN} :
          /\ \A user \in Subjects, cid \in CreateCIDs :
                LET r == CallCreate(sender, user, "did:a", cid)
                IN  r.abort = "ENotAdmin" /\ r.st = registry /\ r.events = <<>>
          /\ \A verifier \in AdminVerifierArgs :
                LET r == CallRegister(sender, verifier)
                    a == add_verifier(oracle, sender, verifier)
                    x == remove_verifier(oracle, sender, verifier)
                IN  /\ r.abort = "ENotAdmin" /\ r.st = registry /\ r.events = <<>>
                    /\ a.abort = "ENotAdmin" /\ a.st = oracle /\ a.events = <<>>
                    /\ x.abort = "ENotAdmin" /\ x.st = oracle /\ x.events = <<>>

\* a non-admin's remove_verifier was just rejected while both verifier lists and
\* the profile table hold entries
C14_Witness ==
    /\ lastTx.fn = "remove_verifier"
    /\ lastTx.abort = "ENotAdmin"
    /\ Len(registry.verifiers) > 0
    /\ Len(oracle.verifiers) > 0
    /\ \E u \in Subjects : HasProfile(u)

---------------------------------------------------------------------------
(* Who may change a profile, checked under SpecRegistry *)

\* C15: update_trust_score and add_verified_account sent by an address that is not
\* a registered verifier abort with ENotVerifier and leave the profile as it was:
\* while no verifier was ever registered (the registry has no removal), every
\* profile is as create_trust_profile made it.
C15_ChangesOnlyByVerifiers ==
    registry.verifiers = <<>> =>
        \A u \in Subjects :
            HasProfile(u) =>
                /\ ProfileOf(u).metadata_cid \in CreateCIDs
                /\ ProfileOf(u).verified_accounts = <<>>


\* C16: add_verified_account with a (provider, username) pair that is already
\* attached to some profile is rejected, so over all profiles no two verified
\* accounts hold the same (provider, username) pair.
C16_NoDuplicateAccount ==
    \A i, j \in 1..Len(Profiles) :
        \A a \in 1..Len(Profiles[i].verified_accounts),
           b \in 1..Len(Profiles[j].verified_accounts) :
            ( /\ Profiles[i].verified_accounts[a].provider =
                 Profiles[j].verified_accounts[b].provider
              /\ Profiles[i].verified_accounts[a].username =
                 Profiles[j].verified_accounts[b].username )
            => (i = j /\ a = b)


\* C17: register_verifier(admin, v) for a v that is already a verifier changes
\* nothing: the verifier list holds every address at most once.
C17_VerifierHeldOnce ==
    \A i, j \in 1..Len(registry.verifiers) :
        registry.verifiers[i] = registry.verifiers[j] => i = j

---------------------------------------------------------------------------
(* trust_badge: mint, renew and the ledger's transfer of a badge object *)

\* struct TrustBadge has key, store
TrustBadgeAbilities == {"key", "store"}

\* sui::transfer::public_transfer, callable from any module or transaction by the
\* address that holds the object, for an object type that has the store ability
public_transfer(bs, i, recipient) ==
    IF "store" \notin TrustBadgeAbilities THEN Abort("ENoStoreAbility", bs)
    ELSE Commit([bs EXCEPT ![i].holder = recipient], <<>>)

\* the holder of badge i passes it as &mut TrustBadge
UpdateTrustBadge(i, new_score, new_metadata_url) ==
    LET r == update_trust_badge(badges, i, new_score, new_metadata_url, epoch)
    IN  /\ i \in 1..Len(badges)
        /\ badges[i].badge.version < MaxVersion
        /\ badges' = r.st
        /\ lastTx' = Tx("update_trust_badge", r)
        /\ UNCHANGED <<registryVars, epoch, oracleVars, tierVars, offLedgerVars>>

\* the holder of badge i sends it to recipient
TransferBadge(i, recipient) ==
    LET r == public_transfer(badges, i, recipient)
    IN  /\ i \in 1..Len(badges)
        /\ badges' = r.st
        /\ lastTx' = Tx("public_transfer", r)
        /\ UNCHANGED <<registryVars, epoch, oracleVars, tierVars, offLedgerVars>>

BadgeScores == {59, 80}

NextBadge ==
    \/ \E owner \in Subjects, badge_type \in E2EBadgeTypes, trust_score \in BadgeScores :
          MintTrustBadge(owner, badge_type, trust_score, "url0")
    \/ \E i \in 1..MaxBadges, new_score \in BadgeScores :
          UpdateTrustBadge(i, new_score, "url1")
    \/ \E i \in 1..MaxBadges, recipient \in Subjects :
          TransferBadge(i, recipient)
    \/ AdvanceEpoch

SpecBadge == InitOracle /\ [][NextBadge]_vars

\* C18: mint_trust_badge derives badge_type from trust_score by the tier
\* thresholds: a badge as minted (version 1) has the tier of the score stored in it.
C18_MintedTypeIsTierOfScore ==
    \A i \in 1..Len(badges) :
        badges[i].badge.version = 1 =>
            badges[i].badge.badge_type = get_badge_tier(badges[i].badge.trust_score)

\* C19: after any mints and renewals, two distinct badges never have the same
\* owner and the same badge_type.
C19_OneBadgePerOwnerAndType ==
    \A i, j \in 1..Len(badges) :
        ( /\ badges[i].badge.owner = badges[j].badge.owner
          /\ badges[i].badge.badge_type = badges[j].badge.badge_type )
        => i = j

\* C20: a badge is soulbound: whatever was done with it after the mint, its owner
\* field is unchanged and the address that holds it is the one it was issued to.
C20_Soulbound ==
    \A i \in 1..Len(badges) : badges[i].holder = badges[i].badge.owner

---------------------------------------------------------------------------
(* trust_badge: renewal and expiry of the badges of one owner *)

MaxRenewBadges == 1
RenewOwner == "s1"

\* a whole validity period passes on the ledger
AdvanceValidityPeriod ==
    /\ epoch <= MaxEpoch
    /\ epoch' = epoch + ValidityPeriod
    /\ UNCHANGED <<registryVars, lastTx, oracleVars, badges, tierVars, offLedgerVars>>

NextRenew ==
    \/ \E trust_score \in BadgeScores :
          /\ Len(badges) < MaxRenewBadges
          /\ MintTrustBadge(RenewOwner, get_badge_tier(trust_score), trust_score, "url0")
    \/ \E i \in 1..MaxRenewBadges, new_score \in BadgeScores :
          UpdateTrustBadge(i, new_score, "url1")
    \/ AdvanceEpoch
    \/ AdvanceValidityPeriod

SpecRenew == InitOracle /\ [][NextRenew]_vars

\* the call update_trust_badge(&mut badge i, new_score, "url1") made now
CallRenew(i, new_score) == update_trust_badge(badges, i, new_score, "url1", epoch)

\* C21: update_trust_badge sets trust_score and metadata_url to the new values,
\* adds exactly 1 to version, resets expires_at, emits one TrustBadgeUpdated with
\* the score before the call and the new score, and leaves owner, issued_at, the
\* holder and every other badge as they were; version is 1 at mint (with the
\* mint's url) and larger after a renewal.
C21_RenewEffect ==
    /\ \A i \in 1..Len(badges), new_score \in BadgeScores :
          LET r == CallRenew(i, new_score)
              was == badges[i].badge
              now == r.st[i].badge
          IN  /\ r.abort = "OK"
              /\ now.trust_score = new_score
              /\ now.metadata_url = "url1"
              /\ now.version = was.version + 1
              /\ now.expires_at = epoch + ValidityPeriod
              /\ now.owner = was.owner
              /\ now.issued_at = was.issued_at
              /\ now.badge_type = was.badge_type
              /\ r.st[i].holder = badges[i].holder
              /\ Len(r.st) = Len(badges)
              /\ \A j \in 1..Len(badges) : j # i => r.st[j] = badges[j]
              /\ Len(r.events) = 1
              /\ r.events[1].type = "TrustBadgeUpdated"
              /\ r.events[1].old_score = was.trust_score
              /\ r.events[1].new_score = new_score
    /\ \A i \in 1..Len(badges) :
          /\ badges[i].badge.version >= 1
          /\ badges[i].badge.version = 1 <=> badges[i].badge.metadata_url = "url0"
          /\ badges[i].badge.owner = RenewOwner
          /\ badges[i].badge.issued_at <= epoch

\* a badge minted at a score of one tier was renewed twice at a later time, the
\* last time to the other score
C21_Witness ==
    /\ lastTx = [fn |-> "update_trust_badge", abort |-> "OK",
                 events |-> <<"TrustBadgeUpdated">>]
    /\ \E i \in 1..Len(badges) :
          /\ badges[i].badge.version = 3
          /\ badges[i].badge.badge_type = "Bronze"
          /\ badges[i].badge.trust_score = 80
          /\ badges[i].badge.issued_at = 0
          /\ badges[i].badge.expires_at > ValidityPeriod


\* C22: is_expired(badge, now) is true exactly when now > expires_at, and false at
\* now = expires_at; a mint or a renewal made at time t sets expires_at to
\* t + ValidityPeriod, so that the badge is not expired up to and including
\* t + ValidityPeriod and is expired from the next time unit on.
C22_ExpiredExactlyAfterExpiry ==
    /\ \A i \in 1..Len(badges) :
          LET b == badges[i].badge
          IN  /\ is_expired(b, epoch) <=> epoch > b.expires_at
              /\ ~is_expired(b, b.expires_at)
              /\ is_expired(b, b.expires_at + 1)
              /\ b.version = 1 => b.expires_at = b.issued_at + ValidityPeriod
              /\ b.expires_at <= epoch + ValidityPeriod
              /\ \A new_score \in BadgeScores :
                    LET n == CallRenew(i, new_score).st[i].badge
                    IN  /\ n.expires_at = epoch + ValidityPeriod
                        /\ \A t \in epoch..(epoch + 1) : ~is_expired(n, t)
                        /\ ~is_expired(n, epoch + ValidityPeriod)
                        /\ is_expired(n, epoch + ValidityPeriod + 1)
    /\ \A trust_score \in BadgeScores :
          LET r == mint_trust_badge(badges, RenewOwner, get_badge_tier(trust_score),
                                    trust_score, "url0", epoch)
              n == r.st[Len(r.st)].badge
          IN  /\ n.expires_at = epoch + ValidityPeriod
              /\ ~is_expired(n, epoch)
              /\ ~is_expired(n, epoch + ValidityPeriod)
              /\ is_expired(n, epoch + ValidityPeriod + 1)

\* a renewed badge whose validity period has run out
C22_Witness ==
    \E i \in 1..Len(badges) :
        /\ badges[i].badge.version = 2
        /\ badges[i].badge.issued_at = 0
        /\ badges[i].badge.expires_at = 1 + ValidityPeriod
        /\ epoch = 2 + ValidityPeriod
        /\ is_expired(badges[i].badge, epoch)

---------------------------------------------------------------------------
(* QueueService: the calculate-score jobs and the ledger writes they lead to *)

\* C23: queueTrustScoreCalculation for a subject whose recalculation is already
\* waiting or running adds nothing: at most one calculate-score job per subject
\* is waiting or active.
C23_OneRecalculationPerSubject ==
    \A userId \in QueueUsers :
        Cardinality({k \in 1..Len(trustScoreQueue.waiting) :
                        trustScoreQueue.waiting[k].userId = userId})
        + (IF trustScoreQueue.active # NoJob /\ trustScoreQueue.active.userId = userId
              THEN 1 ELSE 0)
        <= 1


\* C24: a ledger write that fails is tried again (after growing delays) before
\* it is given up: a job is in the failed set only after more than one attempt.
C24_FailedWriteWasRetried ==
    \A k \in 1..Len(failedJobs) : failedJobs[k].attemptsMade > 1


\* C25: a recalculation leads to a ledger write only if the score it computed
\* differs from the mirror's score of the subject by more than the threshold; one
\* that computed the very score the mirror holds writes nothing.
C25_WriteOnlyOnChangedScore ==
    lastRecalc # NoRecalc => lastRecalc.score # lastRecalc.current

---------------------------------------------------------------------------
(* BlockchainEventProcessor: the live subscription next to a replay *)

\* the subject whose mirror row the handler of event writes
EventSubject(event) ==
    IF "user" \in DOMAIN event.parsedJson THEN event.parsedJson.user
    ELSE event.parsedJson.owner

\* onMessage: the subscription hands over its next event; processEvent is called
\* and not awaited
LiveDeliver ==
    LET event == chain[subscription.next]
        st == processEvent([mirror |-> mirror, handled |-> handled, threw |-> FALSE], wsService, event)
    IN  /\ subscription.connected
        /\ subscription.next <= Len(chain)
        /\ SumDeliveries(handled, 1) < MaxDeliveries
        /\ mirror' = st.mirror
        /\ handled' = st.handled
        /\ subscription' = [subscription EXCEPT !.next = @ + 1]
        /\ replaying' = IF replaying.active /\ SplitPop(event.type) \in eventHandlers
                           THEN [replaying EXCEPT !.live = @ \cup {EventSubject(event)}]
                           ELSE replaying
        /\ lastStep' = [NoStep EXCEPT !.op = "onMessage"]
        /\ UNCHANGED <<ledgerVars, tierVars, wsVars, verifyVars, chain, wsService, poison, queueVars>>

\* the connection of the subscription is lost; the processor registers no
\* callback for it
Drop ==
    /\ subscription.connected
    /\ subscription' = [subscription EXCEPT !.connected = FALSE]
    /\ UNCHANGED <<ledgerVars, tierVars, wsVars, verifyVars, chain, mirror, handled, wsService, lastStep,
                   replaying, poison, queueVars>>

\* startEventListening again (a restart, or the client library resubscribing):
\* a subscription hands over the events emitted after it was made
StartEventListening ==
    /\ ~subscription.connected
    /\ subscription' = [connected |-> TRUE, next |-> Len(chain) + 1]
    /\ lastStep' = [NoStep EXCEPT !.op = "subscribeEvent"]
    /\ UNCHANGED <<ledgerVars, tierVars, wsVars, verifyVars, chain, mirror, handled, wsService, replaying, poison,
                   queueVars>>

\* replayEvents up to the return of `await this.client.queryEvents(...)`
ReplayQuery(startTime, endTime) ==
    /\ ~replaying.active
    /\ replaying' = [active |-> TRUE, data |-> queryEvents(chain), startTime |-> startTime,
                     endTime |-> endTime, live |-> {}]
    /\ lastStep' = [NoStep EXCEPT !.op = "queryEvents"]
    /\ UNCHANGED <<ledgerVars, tierVars, wsVars, verifyVars, chain, mirror, handled, wsService, subscription,
                   poison, queueVars>>

\* replayEvents from there: the loop over events.data
ReplayApply ==
    LET st == ReplayLoop([mirror |-> mirror, handled |-> handled, threw |-> FALSE], wsService, replaying.data, 1,
                         replaying.startTime, replaying.endTime)
    IN  /\ replaying.active
        /\ SumDeliveries(handled, 1) < MaxDeliveries
        /\ mirror' = st.mirror
        /\ handled' = st.handled
        /\ replaying' = NoReplay
        /\ lastStep' = [op |-> "replayEvents", startTime |-> replaying.startTime,
                        endTime |-> replaying.endTime]
        /\ UNCHANGED <<ledgerVars, tierVars, wsVars, verifyVars, chain, wsService, subscription, poison, queueVars>>

NextFeed ==
    \/ \E user \in EventSubjects, new_score \in EventScores : EmitTrustScoreUpdated(user, new_score)
    \/ LiveDeliver
    \/ Drop
    \/ StartEventListening
    \/ \E startTime \in ReplayStarts, endTime \in ReplayEnds : ReplayQuery(startTime, endTime)
    \/ ReplayApply

SpecFeed == InitEvents /\ [][NextFeed]_vars

C27_ReplayExcludesLive ==
    replaying.active =>
        \A k \in 1..Len(replaying.data) :
            ( /\ replaying.data[k].timestampMs >= replaying.startTime
              /\ replaying.data[k].timestampMs <= replaying.endTime
              /\ SplitPop(replaying.data[k].type) \in eventHandlers )
            => EventSubject(replaying.data[k]) \notin replaying.live


\* C28: after the subscription was lost and made again, the events emitted in
\* between are replayed before a new live event is applied: when a live event
\* has just been applied, every event emitted before it has been handed to
\* processEvent.
C28_GapReplayedBeforeLive ==
    lastStep.op = "onMessage" =>
        \A i \in 1..(subscription.next - 1) : handled[i].deliveries > 0

---------------------------------------------------------------------------
(* BlockchainEventProcessor: events whose handler throws *)

\* from now on the handler of event k throws whenever it is called
HandlerBreaks(k) ==
    /\ k \in 1..Len(chain)
    /\ k \notin poison
    /\ poison' = poison \cup {k}
    /\ UNCHANGED <<ledgerVars, tierVars, wsVars, verifyVars, chain, mirror, handled, wsService, lastStep,
                   subscription, replaying, queueVars>>

NextCatch ==
    \/ \E user \in EventSubjects, new_score \in EventScores : EmitTrustScoreUpdated(user, new_score)
    \/ \E k \in 1..MaxEvents : HandlerBreaks(k)
    \/ LiveDeliver
    \/ \E endTime \in ReplayEnds : ReplayQuery(0, endTime)
    \/ ReplayApply

SpecCatch == InitEvents /\ [][NextCatch]_vars

\* C29: an exception thrown by the handler of one event stays inside
\* processEvent: the call made for the subscription's next event does not throw,
\* and a replay under way would hand every event of its page that lies in its
\* range to processEvent, those behind a throwing one included, and end without
\* an exception.
C29_HandlerExceptionContained ==
    /\ (subscription.connected /\ subscription.next <= Len(chain)) =>
          ~processEvent([mirror |-> mirror, handled |-> handled, threw |-> FALSE], wsService,
                        chain[subscription.next]).threw
    /\ replaying.active =>
          LET st == ReplayLoop([mirror |-> mirror, handled |-> handled, threw |-> FALSE],
                               wsService, replaying.data, 1, replaying.startTime,
                               replaying.endTime)
          IN  /\ ~st.threw
              /\ \A k \in 1..Len(replaying.data) :
                    ( /\ replaying.data[k].timestampMs >= replaying.startTime
                      /\ replaying.data[k].timestampMs <= replaying.endTime ) =>
                        st.handled[replaying.data[k].seq].deliveries =
                            handled[replaying.data[k].seq].deliveries + 1

\* a replay has handed over an event whose handler throws and then applied the
\* event behind it
C29_Witness ==
    /\ lastStep.op = "replayEvents"
    /\ Len(chain) >= 2
    /\ 1 \in poison
    /\ 2 \notin poison
    /\ handled[1].deliveries = 1
    /\ handled[1].mirror_updates = 0
    /\ handled[2].deliveries = 1
    /\ handled[2].mirror_updates = 1

parked == {}

\* C30: an event whose handler keeps failing is parked: every event handed to
\* processEvent that has a handler was applied to the mirror or is in the parked
\* set.
C30_AppliedOrParked ==
    \A k \in 1..Len(chain) :
        (handled[k].deliveries > 0 /\ SplitPop(chain[k].type) \in eventHandlers) =>
            (handled[k].mirror_updates > 0 \/ k \in parked)

---------------------------------------------------------------------------
\* WebSocketService (websocket-service.ts). A socket is named by the client id
\* generateClientId draws for it; a token is <<payload id, signing key>>, and
\* the request without a token carries <<>>. client.ws.send on an OPEN socket
\* does not throw: a failed send surfaces as the socket's 'error' event.

Tokens == {<<>>, <<"s1", "JWT_SECRET">>, <<"s2", "JWT_SECRET">>, <<"s1", "forged">>}

\* jwt.verify(token, env.JWT_SECRET): the payload, or an exception
verifyJWT(token) ==
    IF token[2] = "JWT_SECRET" THEN [threw |-> FALSE, id |-> token[1]]
    ELSE [threw |-> TRUE, id |-> ""]

\* this.clients.delete(clientId)
handleDisconnection(cl, clientId) == [c \in DOMAIN cl \ {clientId} |-> cl[c]]

\* sendToUser without the comparison of userId (broadcast)
sendToUser_any_user(cl, sk, userId) ==
    {c \in DOMAIN cl : sk[cl[c].ws].readyState = "OPEN"}

\* the sockets sendToUser calls send on
sendToUser(cl, sk, userId) ==
    {c \in DOMAIN cl : cl[c].userId = userId /\ sk[cl[c].ws].readyState = "OPEN"}

\* wss.on('connection', (ws, request) => ...) for the socket c of a new request
Connection(c, token) ==
    /\ sockets[c].readyState = "NONE"
    /\ IF token = <<>> \/ verifyJWT(token).threw
          THEN \* ws.close(1008, ...)
               /\ sockets' = [sockets EXCEPT ![c] = [@ EXCEPT !.readyState = "CLOSING",
                                                                !.token = token]]
               /\ UNCHANGED clients
          ELSE /\ clients' = [k \in DOMAIN clients \cup {c} |->
                                IF k = c THEN [ws |-> c, userId |-> verifyJWT(token).id,
                                               sessionId |-> c]
                                ELSE clients[k]]
               /\ sockets' = [sockets EXCEPT ![c] = [@ EXCEPT !.readyState = "OPEN",
                                                                !.token = token,
                                                                !.listeners = TRUE]]
    /\ UNCHANGED <<ledgerVars, tierVars, verifyVars, processorVars, queueVars>>

\* the peer, the network or ws.close starts the closing handshake of socket c
SocketClosing(c) ==
    /\ sockets[c].readyState = "OPEN"
    /\ sockets' = [sockets EXCEPT ![c].readyState = "CLOSING"]
    /\ UNCHANGED <<ledgerVars, tierVars, verifyVars, processorVars, queueVars, clients>>

\* the 'close' event of socket c
OnClose(c) ==
    /\ sockets[c].readyState \in {"OPEN", "CLOSING"}
    /\ sockets' = [sockets EXCEPT ![c] = [@ EXCEPT !.readyState = "CLOSED", !.ended = TRUE]]
    /\ clients' = IF sockets[c].listeners THEN handleDisconnection(clients, c) ELSE clients
    /\ UNCHANGED <<ledgerVars, tierVars, verifyVars, processorVars, queueVars>>

\* the 'error' event of a socket c that has the listener, which the library
\* emits while it closes the socket
OnError(c) ==
    /\ sockets[c].readyState \in {"OPEN", "CLOSING"}
    /\ sockets[c].listeners
    /\ ~sockets[c].ended
    /\ sockets' = [sockets EXCEPT ![c] = [@ EXCEPT !.readyState = "CLOSING", !.ended = TRUE]]
    /\ clients' = handleDisconnection(clients, c)
    /\ UNCHANGED <<ledgerVars, tierVars, verifyVars, processorVars, queueVars>>

NextWs ==
    \/ \E c \in ConnIds, token \in Tokens : Connection(c, token)
    \/ \E c \in ConnIds : SocketClosing(c)
    \/ \E c \in ConnIds : OnClose(c)
    \/ \E c \in ConnIds : OnError(c)

InitWs == InitEvents /\ wsService

SpecWs == InitWs /\ [][NextWs]_vars


---------------------------------------------------------------------------
\* The processor next to the WebSocketService it notifies through

NextNotify ==
    \/ \E user \in EventSubjects, new_score \in EventScores : EmitTrustScoreUpdated(user, new_score)
    \/ \E user \in EventSubjects : EmitAccountVerified(user)
    \/ \E owner \in EventSubjects, trust_score \in EventScores : EmitTrustBadgeMinted(owner, trust_score)
    \/ LiveDeliver
    \/ \E token \in Tokens : Connection("c1", token)
    \/ SocketClosing("c1")
    \/ OnClose("c1")
    \/ OnError("c1")

SpecNotify == InitEvents /\ [][NextNotify]_vars

\* C31: in every delivery of an event the handler calls the mirror update and
\* only then hands the notification to the WebSocketService; the mirror update
\* is made in every delivery, with or without a WebSocketService and whatever
\* the state of the user's connections, and what it wrote stays in the mirror
\* when the notification reached nobody or the connection failed afterwards.
C31_MirrorUpdatedThenNotified ==
    \A k \in 1..Len(chain) :
        LET h == handled[k]
            j == chain[k].parsedJson
            name == SplitPop(chain[k].type)
        IN  /\ \A i \in 1..Len(h.steps) :
                    h.steps[i] = "notify" => i > 1 /\ h.steps[i - 1] = "update"
            /\ h.mirror_updates = h.deliveries
            /\ h.notifications = (IF wsService THEN h.deliveries ELSE 0)
            /\ h.deliveries >= 1 /\ name = "AccountVerified"
                    => <<j.provider, j.username>> \in mirror[j.user].accounts
            /\ h.deliveries >= 1 /\ name = "TrustBadgeMinted"
                    => <<j.badge_type, j.trust_score, j.metadata_url>> \in mirror[j.owner].badges
            /\ /\ h.deliveries >= 1 /\ name = "TrustScoreUpdated"
               /\ \A l \in ScoreEventsOf(j.user) : l > k => handled[l].deliveries = 0
               => mirror[j.user].trust_score = j.new_score

\* a score event was delivered while the processor had a WebSocketService whose
\* only connection of the user had failed: the notification reached nobody and
\* the mirror holds the score
C31_Witness ==
    /\ wsService
    /\ lastStep.op = "onMessage"
    /\ Len(chain) = 1
    /\ SplitPop(chain[1].type) = "TrustScoreUpdated"
    /\ handled[1].steps = <<"update", "notify">>
    /\ sockets["c1"].ended
    /\ sendToUser(clients, sockets, "s1") = {}
    /\ mirror["s1"].trust_score = chain[1].parsedJson.new_score


\* C32: every call of the registry that commits a change of state emits exactly
\* one event, and every call that aborts emits none: the outcome of the last
\* transaction carries one event when it committed and none when it aborted.
C32_OneEventPerStateChange ==
    /\ lastTx.fn \in {"create_trust_profile", "update_trust_score", "add_verified_account",
                      "register_verifier"}
       /\ lastTx.abort = "OK"
       => Len(lastTx.events) = 1
    /\ lastTx.abort \notin {"OK", "none"} => lastTx.events = <<>>


\* C33: whatever entry function of the registry is called next, by whom and with
\* what arguments, every profile that exists now exists afterwards at the same
\* place with the same owner and the same did, and its list of verified
\* accounts afterwards starts with the list it holds now.
C33_ProfilesKeptAndAppendOnly ==
    LET Kept(reg) ==
            LET new == ProfilesIn(reg)
            IN  /\ Len(new) >= Len(Profiles)
                /\ \A i \in 1..Len(Profiles) :
                        /\ new[i].owner = Profiles[i].owner
                        /\ new[i].did = Profiles[i].did
                        /\ Len(new[i].verified_accounts) >= Len(Profiles[i].verified_accounts)
                        /\ SubSeq(new[i].verified_accounts, 1,
                                  Len(Profiles[i].verified_accounts))
                             = Profiles[i].verified_accounts
    IN  \A sender \in RegSenders, user \in Subjects :
            /\ \A did \in DIDs, cid \in CreateCIDs : Kept(CallCreate(sender, user, did, cid).st)
            /\ \A new_score \in RegScores, cid \in UpdateCIDs :
                    Kept(CallUpdate(sender, user, new_score, cid).st)
            /\ \A provider \in Providers, username \in Usernames :
                    Kept(CallAddAccount(sender, user,
                                        [provider |-> provider, username |-> username,
                                         proof_hash |-> <<171>>, account_id |-> "1"]).st)
            /\ \A verifier \in RegVerifierArgs : Kept(CallRegister(sender, verifier).st)

\* both subjects have a profile, the one of s1 holds a verified account, and an
\* update of its score has committed since
C33_Witness ==
    /\ HasProfile("s1") /\ HasProfile("s2")
    /\ Len(ProfileOf("s1").verified_accounts) = 1
    /\ accepted["s1"] >= 1
    /\ lastTx.fn = "update_trust_score" /\ lastTx.abort = "OK"


\* C34: the verifier check of submit_score_update passes for an address exactly
\* when that address is a verifier in the TrustRegistry: the oracle and the
\* registry agree on who is a verifier.
C34_OracleUsesRegistryVerifiers ==
    \A a \in AdminVerifierArgs : oracle_is_verifier(oracle, a) <=> is_verifier(registry, a)


\* C35: every delivery of an event of one of the four types the ledger emits for
\* profiles, scores, accounts and badges went to a handler that applied the
\* mirror change and, when the processor has a WebSocketService, published a
\* notification: per event, as many mirror updates and notifications as
\* deliveries.
C35_EveryEventTypeHandled ==
    \A k \in 1..Len(chain) :
        SplitPop(chain[k].type) \in {"TrustProfileCreated", "TrustScoreUpdated",
                                     "AccountVerified", "TrustBadgeMinted"}
        => /\ handled[k].mirror_updates = handled[k].deliveries
           /\ wsService => handled[k].notifications = handled[k].deliveries


\* C36: no call of the oracle removes or changes a stored observation: after any
\* add_verifier or remove_verifier the stored observations are the same bag, after
\* any submit_score_update they hold at least what they held, so the number
\* stored per subject never goes down; get_consensus_score counts every stored
\* observation of the subject, those of verifiers removed since included, and a
\* remove_verifier changes no consensus score.
C36_ObservationsAppendOnly ==
    LET StoredFor(orc, user) ==
            LET of == {e \in DOMAIN orc.score_updates : e.user = user}
            IN  BagCardinality([e \in of |-> orc.score_updates[e]])
    IN  /\ \A user \in Subjects : get_consensus_score(oracle, user)[2] = StoredFor(oracle, user)
        /\ \A sender \in OracleSenders :
              /\ \A verifier \in OracleVerifierArgs :
                    LET removed == remove_verifier(oracle, sender, verifier).st
                    IN  /\ add_verifier(oracle, sender, verifier).st.score_updates
                             = oracle.score_updates
                        /\ removed.score_updates = oracle.score_updates
                        /\ \A user \in Subjects :
                              get_consensus_score(removed, user)
                                 = get_consensus_score(oracle, user)
              /\ \A user \in Subjects, score \in OracleScores, timestamp \in Timestamps,
                     signature \in Signatures, cid \in UpdateCIDs :
                    LET after == submit_score_update(oracle, sender, user, score, timestamp,
                                                     signature, cid).st
                    IN  /\ oracle.score_updates \sqsubseteq after.score_updates
                        /\ \A u \in Subjects : StoredFor(after, u) >= StoredFor(oracle, u)

\* v1 submitted an observation of s1 and was removed afterwards: the observation
\* is stored and the consensus of s1 counts it
C36_Witness ==
    /\ lastTx = [fn |-> "remove_verifier", abort |-> "OK", events |-> <<"OracleVerifierRemoved">>]
    /\ ~oracle_is_verifier(oracle, "v1")
    /\ \E e \in UpdatesOf("s1") : e.verifier = "v1"
    /\ get_consensus_score(oracle, "s1")[2] >= 1


\* C37: when replayEvents(startTime, endTime) has returned, every event the
\* ledger holds whose time lies in [startTime, endTime] has been handed to
\* processEvent, however many events the ledger holds.
C37_ReplayFeedsWholeRange ==
    lastStep.op = "replayEvents"
    => \A k \in 1..Len(chain) :
          chain[k].timestampMs >= lastStep.startTime /\ chain[k].timestampMs <= lastStep.endTime
          => handled[k].deliveries >= 1


\* C38: the badge_type of every badge is the tier of the trust_score it holds,
\* after mint_trust_badge and after every update_trust_badge.
C38_TypeIsTierOfCurrentScore ==
    \A i \in 1..Len(badges) : badges[i].badge.badge_type = get_badge_tier(badges[i].badge.trust_score)


---------------------------------------------------------------------------
\* QueueService: the 'verify-account' processor of the verification queue

MaxVerifyJobs == 3    \* verify-account jobs ever added

\* queueAccountVerification(accountId, verificationData); Bull numbers the jobs
QueueAccountVerification(accountId) ==
    LET added == Len(verificationQueue.waiting) + Len(verificationQueue.finished)
                 + (IF verificationQueue.active = NoJob THEN 0 ELSE 1)
    IN  /\ added < MaxVerifyJobs
        /\ verificationQueue' =
              [verificationQueue EXCEPT !.waiting =
                  Append(@, [name |-> "verify-account", id |-> added + 1,
                             accountId |-> accountId])]
        /\ UNCHANGED <<ledgerVars, tierVars, wsVars, processorVars, queueVars, linkedAccounts>>

\* prisma.linkedAccount.update({ where: { id }, data: { verified: true, ... } }):
\* rejects when no row has the id
linkedAccountUpdate(la, accountId) ==
    IF la[accountId].exists
    THEN [threw |-> FALSE, la |-> [la EXCEPT ![accountId].verified = TRUE]]
    ELSE [threw |-> TRUE, la |-> la]

\* the jobs added with two calls of trustScoreQueue.add
CalculateScoreJobs_twice(account) ==
    IF account.exists
    THEN <<[name |-> "calculate-score", userId |-> account.userId],
           [name |-> "calculate-score", userId |-> account.userId]>>
    ELSE <<>>

\* if (account) await this.trustScoreQueue.add('calculate-score', { userId:
\* account.userId }), on what findUnique returned: the jobs added
CalculateScoreJobs(account) ==
    IF account.exists THEN <<[name |-> "calculate-score", userId |-> account.userId]>>
    ELSE <<>>

\* the worker takes the next verify-account job and runs the processor up to the
\* return of prisma.linkedAccount.update; a rejection fails the job
ProcessVerifyAccount ==
    LET job == Head(verificationQueue.waiting)
        r == linkedAccountUpdate(linkedAccounts, job.accountId)
    IN  /\ verificationQueue.active = NoJob
        /\ verificationQueue.waiting # <<>>
        /\ linkedAccounts' = r.la
        /\ verificationQueue' =
              IF r.threw
              THEN [verificationQueue EXCEPT
                       !.waiting = Tail(@),
                       !.finished = Append(@, [id |-> job.id, accountId |-> job.accountId,
                                               status |-> "failed", found |-> FALSE,
                                               enqueued |-> 0, verified |-> FALSE])]
              ELSE [verificationQueue EXCEPT !.waiting = Tail(@), !.active = job]
        /\ UNCHANGED <<ledgerVars, tierVars, wsVars, processorVars, queueVars>>

\* the rest of the processor: findUnique, the add under `if (account)`, return
VerifyAccountDone ==
    LET job == verificationQueue.active
        account == linkedAccounts[job.accountId]
        jobs == CalculateScoreJobs(account)
    IN  /\ job # NoJob
        /\ trustScoreQueue' = [trustScoreQueue EXCEPT !.waiting = @ \o jobs]
        /\ verificationQueue' =
              [verificationQueue EXCEPT
                  !.active = NoJob,
                  !.finished = Append(@, [id |-> job.id, accountId |-> job.accountId,
                                          status |-> "completed", found |-> account.exists,
                                          enqueued |-> Len(jobs),
                                          verified |-> account.verified])]
        /\ UNCHANGED <<ledgerVars, tierVars, wsVars, processorVars, blockchainQueue, inflight,
                       failedJobs, lastRecalc, linkedAccounts>>

\* DELETE of a linked account (routes/users.ts): the row is gone
DeleteAccount(accountId) ==
    /\ linkedAccounts[accountId].exists
    /\ linkedAccounts' = [linkedAccounts EXCEPT
                             ![accountId] = [exists |-> FALSE, userId |-> "", verified |-> FALSE]]
    /\ UNCHANGED <<ledgerVars, tierVars, wsVars, processorVars, queueVars, verificationQueue>>

NextVerify ==
    \/ \E accountId \in AccountIds : QueueAccountVerification(accountId)
    \/ ProcessVerifyAccount
    \/ VerifyAccountDone
    \/ DeleteAccount("a2")

SpecVerify == InitWs /\ [][NextVerify]_vars

\* C39: the calculate-score jobs in the trust score queue are, in order, one for
\* each verify-account job that completed and found its account, each for the
\* user of that account, and the account was marked verified when the job was
\* added; a verify-account job that failed (its update was rejected) added no
\* job and marked nothing.
C39_VerifiedThenOneRecalculation ==
    LET fin == verificationQueue.finished
        done == SelectSeq(fin, LAMBDA f : f.status = "completed" /\ f.found)
    IN  /\ trustScoreQueue.waiting =
              [i \in 1..Len(done) |->
                  [name |-> "calculate-score", userId |-> AccountUser[done[i].accountId]]]
        /\ \A i \in 1..Len(fin) :
              /\ fin[i].status = "completed" /\ fin[i].found
                    => fin[i].enqueued = 1 /\ fin[i].verified
              /\ fin[i].status = "failed"
                    => fin[i].enqueued = 0 /\ ~linkedAccounts[fin[i].accountId].verified

\* a job for the missing account a3 failed and a job for a1 completed: one
\* calculate-score job, for s1, is waiting and a1 is verified
C39_Witness ==
    /\ \E i \in 1..Len(verificationQueue.finished) :
          /\ verificationQueue.finished[i].accountId = "a3"
          /\ verificationQueue.finished[i].status = "failed"
    /\ \E i \in 1..Len(verificationQueue.finished) :
          /\ verificationQueue.finished[i].accountId = "a1"
          /\ verificationQueue.finished[i].status = "completed"
    /\ linkedAccounts["a1"].verified
    /\ trustScoreQueue.waiting = <<[name |-> "calculate-score", userId |-> "s1"]>>


\* C40: a connection is in the clients map only if its token was verified, under
\* the user id of that token, and only while neither its close nor its error
\* event has been handled; a connection without a token or with a token that
\* does not verify is being closed or closed and is not in the map; and
\* sendToUser(u, msg) calls send only on connections of the map that are OPEN
\* and whose verified user is u.
C40_ClientsAreOpenVerifiedSessions ==
    /\ \A c \in DOMAIN clients :
          /\ sockets[c].token # <<>>
          /\ ~verifyJWT(sockets[c].token).threw
          /\ clients[c].userId = verifyJWT(sockets[c].token).id
          /\ ~sockets[c].ended
    /\ \A c \in ConnIds :
          sockets[c].readyState # "NONE"
          /\ (sockets[c].token = <<>> \/ verifyJWT(sockets[c].token).threw)
          => c \notin DOMAIN clients /\ sockets[c].readyState \in {"CLOSING", "CLOSED"}
    /\ \A u \in Subjects :
          \A c \in sendToUser(clients, sockets, u) :
              /\ sockets[c].readyState = "OPEN"
              /\ ~sockets[c].ended
              /\ sockets[c].token # <<>>
              /\ verifyJWT(sockets[c].token).id = u

\* two connections of s1 were accepted and one of them has closed since: the map
\* holds the other one only, and sendToUser for s1 sends on it alone
C40_Witness ==
    /\ sockets["c2"].token = <<"s1", "JWT_SECRET">>
    /\ sockets["c2"].readyState = "CLOSED"
    /\ sockets["c1"].token = <<"s1", "JWT_SECRET">>
    /\ DOMAIN clients = {"c1"}
    /\ sendToUser(clients, sockets, "s1") = {"c1"}
    /\ sendToUser(clients, sockets, "s2") = {}

===========================================================================
